---- MODULE Spec2Model ----
(***************************************************************************)
(* A model of strcursor: a cursor (buffer, byte offset) over UTF-8 text    *)
(* that steps by extended grapheme cluster or by code point.               *)
(*                                                                         *)
(* Bytes are integers 0..255, a string slice is a sequence of bytes, and a *)
(* pointer into the cursor's buffer is its offset from s.as_ptr().         *)
(***************************************************************************)
EXTENDS Integers, Sequences, FiniteSets, TLC

\* Longest buffer of the model, in code points.
MaxCps == 3

(***************************************************************************)
(* util.rs: the UTF-8 encoder                                              *)
(***************************************************************************)
TAG_CONT == 128
TAG_TWO_B == 192
TAG_THREE_B == 224
TAG_FOUR_B == 240
MAX_ONE_B == 128
MAX_TWO_B == 2048
MAX_THREE_B == 65536

\* encode_utf8_raw whose thresholds are inclusive (code <= MAX_...).
encode_utf8_raw_inclusive_max(code, dst) ==
    IF code <= MAX_ONE_B /\ Len(dst) # 0 THEN
        [some |-> TRUE, n |-> 1, dst |-> [dst EXCEPT ![1] = code % 256]]
    ELSE IF code <= MAX_TWO_B /\ Len(dst) >= 2 THEN
        [some |-> TRUE, n |-> 2,
         dst |-> [dst EXCEPT ![1] = ((code \div 64) % 32) + TAG_TWO_B,
                             ![2] = (code % 64) + TAG_CONT]]
    ELSE IF code <= MAX_THREE_B /\ Len(dst) >= 3 THEN
        [some |-> TRUE, n |-> 3,
         dst |-> [dst EXCEPT ![1] = ((code \div 4096) % 16) + TAG_THREE_B,
                             ![2] = ((code \div 64) % 64) + TAG_CONT,
                             ![3] = (code % 64) + TAG_CONT]]
    ELSE IF Len(dst) >= 4 THEN
        [some |-> TRUE, n |-> 4,
         dst |-> [dst EXCEPT ![1] = ((code \div 262144) % 8) + TAG_FOUR_B,
                             ![2] = ((code \div 4096) % 64) + TAG_CONT,
                             ![3] = ((code \div 64) % 64) + TAG_CONT,
                             ![4] = (code % 64) + TAG_CONT]]
    ELSE
        [some |-> FALSE, n |-> 0, dst |-> dst]

\* encode_utf8_raw(code, dst): Option<usize> and the bytes left in dst.
\* (x >> k & m) is (x \div 2^k) % (m+1); the tag's bits are disjoint from the
\* masked value's, so `|` is `+`; `code as u8` keeps the low 8 bits.
encode_utf8_raw(code, dst) ==
    IF code < MAX_ONE_B /\ Len(dst) # 0 THEN
        [some |-> TRUE, n |-> 1, dst |-> [dst EXCEPT ![1] = code % 256]]
    ELSE IF code < MAX_TWO_B /\ Len(dst) >= 2 THEN
        [some |-> TRUE, n |-> 2,
         dst |-> [dst EXCEPT ![1] = ((code \div 64) % 32) + TAG_TWO_B,
                             ![2] = (code % 64) + TAG_CONT]]
    ELSE IF code < MAX_THREE_B /\ Len(dst) >= 3 THEN
        [some |-> TRUE, n |-> 3,
         dst |-> [dst EXCEPT ![1] = ((code \div 4096) % 16) + TAG_THREE_B,
                             ![2] = ((code \div 64) % 64) + TAG_CONT,
                             ![3] = (code % 64) + TAG_CONT]]
    ELSE IF Len(dst) >= 4 THEN
        [some |-> TRUE, n |-> 4,
         dst |-> [dst EXCEPT ![1] = ((code \div 262144) % 8) + TAG_FOUR_B,
                             ![2] = ((code \div 4096) % 64) + TAG_CONT,
                             ![3] = ((code \div 64) % 64) + TAG_CONT,
                             ![4] = (code % 64) + TAG_CONT]]
    ELSE
        [some |-> FALSE, n |-> 0, dst |-> dst]

(***************************************************************************)
(* The buffers: every valid UTF-8 string of at most MaxCps code points     *)
(* over 'a' (1 byte), U+0308 COMBINING DIAERESIS (2 bytes, Extend),        *)
(* U+5927 (3 bytes) and U+1F1E6 REGIONAL INDICATOR A (4 bytes).            *)
(***************************************************************************)
Alphabet == {97, 776, 22823, 127462}

Encoded(cp) ==
    LET r == encode_utf8_raw(cp, <<0, 0, 0, 0>>) IN SubSeq(r.dst, 1, r.n)

RECURSIVE Utf8(_)
Utf8(cps) ==
    IF cps = <<>> THEN <<>> ELSE Encoded(Head(cps)) \o Utf8(Tail(cps))

Buffers ==
    {Utf8(cps) : cps \in UNION {[1..n -> Alphabet] : n \in 0..MaxCps}}

\* The byte that lies in memory right after the buffer, at s.as_ptr() + len.
\* It belongs to no str: a read of it yields whatever is stored there, a
\* UTF-8 continuation byte (0x80) or not (0x00).
PastBytes == {0, 128}

(***************************************************************************)
(* std: str::chars().next() and char::len_utf8                             *)
(***************************************************************************)
\* Byte length of the code point whose lead byte is b.
len_utf8_of_lead(b) ==
    IF b < TAG_CONT THEN 1
    ELSE IF b >= TAG_FOUR_B THEN 4
    ELSE IF b >= TAG_THREE_B THEN 3
    ELSE 2

\* The scalar value of the first code point of the non-empty str.
first_char(str) ==
    LET b == str[1] IN
    IF b < TAG_CONT THEN b
    ELSE IF b >= TAG_FOUR_B THEN
        (b % 8) * 262144 + (str[2] % 64) * 4096 + (str[3] % 64) * 64 + (str[4] % 64)
    ELSE IF b >= TAG_THREE_B THEN
        (b % 16) * 4096 + (str[2] % 64) * 64 + (str[3] % 64)
    ELSE (b % 32) * 64 + (str[2] % 64)

(***************************************************************************)
(* The grapheme segmentation oracle (unicode_segmentation's                *)
(* UnicodeSegmentation::graphemes(s, true)), by the UAX #29 rules the      *)
(* alphabet exercises: GB9 (no break before Extend), GB12/GB13 (regional   *)
(* indicators pair up) and GB999 (break everywhere else).                  *)
(***************************************************************************)
grapheme_cat(cp) ==
    IF cp \in 768..879 THEN "Extend"
    ELSE IF cp \in 127462..127487 THEN "Regional_Indicator"
    ELSE "Any"

\* The end of the cluster that is being read, str[1..j] so far; ri is the
\* number of regional indicators the cluster ends with, when it is made of
\* regional indicators only.
RECURSIVE cluster_end(_, _, _)
cluster_end(str, j, ri) ==
    IF j >= Len(str) THEN j
    ELSE LET rest == SubSeq(str, j + 1, Len(str))
             cat  == grapheme_cat(first_char(rest))
             l    == len_utf8_of_lead(rest[1])
         IN IF cat = "Extend" THEN cluster_end(str, j + l, 0)
            ELSE IF cat = "Regional_Indicator" /\ ri = 1
                 THEN cluster_end(str, j + l, 2)
            ELSE j

\* Byte length of the first cluster of the non-empty str.
first_cluster_len(str) ==
    cluster_end(str, len_utf8_of_lead(str[1]),
                IF grapheme_cat(first_char(str)) = "Regional_Indicator"
                THEN 1 ELSE 0)

\* graphemes(str, true) as the sequence of the clusters' byte lengths.
RECURSIVE graphemes(_)
graphemes(str) ==
    IF str = <<>> THEN <<>>
    ELSE LET l == first_cluster_len(str)
         IN <<l>> \o graphemes(SubSeq(str, l + 1, Len(str)))

\* Iterator::next() and DoubleEndedIterator::next_back() of the oracle.
graphemes_next(str) ==
    IF str = <<>> THEN [some |-> FALSE, len |-> 0]
    ELSE [some |-> TRUE, len |-> first_cluster_len(str)]

graphemes_next_back(str) ==
    LET g == graphemes(str) IN
    IF g = <<>> THEN [some |-> FALSE, len |-> 0]
    ELSE [some |-> TRUE, len |-> g[Len(g)]]

(***************************************************************************)
(* The state: one buffer, the byte stored right after it, and one cursor   *)
(* variable `cur` of the calling program with what its last operation      *)
(* returned.                                                               *)
(***************************************************************************)
VARIABLES
    s,       \* the buffer the cursor borrows (cur.s)
    past,    \* the byte in memory at s.as_ptr() + s.len()
    at,      \* cur.at - s.as_ptr(), the cursor's byte offset
    op,      \* the operation applied last
    arg,     \* its argument: a byte position, or a character
    at0,     \* the cursor's byte offset when the operation was called
    ret,     \* what the operation returned
    cpUsed,  \* whether a code-point-level operation has been used
    f,       \* the step function a FiniteIter over the cursor holds
    calls,   \* how many times that FiniteIter's next has been called
    other,   \* a second cursor, the argument of slice_between / slice_until
    gc       \* the cluster value (Gc or GcBuf) the program holds

vars == <<s, past, at, op, arg, at0, ret, cpUsed, f, calls, other, gc>>

\* What an operation returns: () or a cursor it built in place ("unit"),
\* Some(cursor) or Some((element, cursor)) ("cursor"), None ("none"), or a
\* panic ("panic").
Unit == [kind |-> "unit", pos |-> 0, elem |-> <<>>]
RetNone == [kind |-> "none", pos |-> 0, elem |-> <<>>]
RetPanic == [kind |-> "panic", pos |-> 0, elem |-> <<>>]
RetSome(p, e) == [kind |-> "cursor", pos |-> p, elem |-> e]

(***************************************************************************)
(* util.rs: pointers and code-point boundaries                             *)
(***************************************************************************)
\* *from, for a pointer from into str or one past its end.
Deref(str, from) == IF from < Len(str) THEN str[from + 1] ELSE past

\* The continuation-byte test that looks at the top bit only.
is_cont_top_bit_only(b) == b \div 128 = 1

\* *from & 0b11_00_0000 == 0b10_00_0000
is_cont(b) == b \div 64 = 2

\* byte_pos_to_ptr that clamps an out-of-range position instead of panicking.
byte_pos_to_ptr_clamping(str, byte_pos) ==
    [panic |-> FALSE,
     ptr |-> IF Len(str) < byte_pos THEN Len(str) ELSE byte_pos]

byte_pos_to_ptr(str, byte_pos) ==
    [panic |-> Len(str) < byte_pos, ptr |-> byte_pos]

RECURSIVE seek_utf8_cp_start_left(_, _)
seek_utf8_cp_start_left(str, from) ==
    IF from > 0 /\ is_cont(Deref(str, from))
    THEN seek_utf8_cp_start_left(str, from - 1)
    ELSE from

RECURSIVE seek_utf8_cp_start_right(_, _)
seek_utf8_cp_start_right(str, from) ==
    IF from < Len(str) /\ is_cont(Deref(str, from))
    THEN seek_utf8_cp_start_right(str, from + 1)
    ELSE from

\* The offsets from s.as_ptr() at which seek_utf8_cp_start_left evaluates
\* *from.
RECURSIVE seek_utf8_cp_start_left_reads(_, _)
seek_utf8_cp_start_left_reads(str, from) ==
    IF from > 0
    THEN {from} \cup (IF is_cont(Deref(str, from))
                      THEN seek_utf8_cp_start_left_reads(str, from - 1)
                      ELSE {})
    ELSE {}

\* The offsets at which seek_utf8_cp_start_right evaluates *from.
RECURSIVE seek_utf8_cp_start_right_reads(_, _)
seek_utf8_cp_start_right_reads(str, from) ==
    IF from < Len(str)
    THEN {from} \cup (IF is_cont(Deref(str, from))
                      THEN seek_utf8_cp_start_right_reads(str, from + 1)
                      ELSE {})
    ELSE {}

\* char::len_utf8
len_utf8(cp) ==
    IF cp < MAX_ONE_B THEN 1
    ELSE IF cp < MAX_TWO_B THEN 2
    ELSE IF cp < MAX_THREE_B THEN 3
    ELSE 4

(***************************************************************************)
(* cursor.rs: a cursor over str is its offset `a`; Option<StrCursor> is    *)
(* [some, pos], Option<&Gc> is [some, ptr, gc] (the cluster's bytes and    *)
(* where they start; rest is the &str split_from pairs it with),           *)
(* Option<char> is [some, cp].                                             *)
(***************************************************************************)
NoCursor == [some |-> FALSE, pos |-> 0]
SomeCursor(p) == [some |-> TRUE, pos |-> p]
NoGc == [some |-> FALSE, ptr |-> 0, gc |-> <<>>, rest |-> <<>>]
NoChar == [some |-> FALSE, cp |-> 0]

slice_before(str, a) == SubSeq(str, 1, a)
\* slice_after that slices from the start of the buffer.
slice_after_from_start(str, a) == SubSeq(str, 1, Len(str))

slice_after(str, a) == SubSeq(str, a + 1, Len(str))
slice_all(str, a) == str
byte_pos(str, a) == a

try_seek_left_cp(str, a) ==
    IF byte_pos(str, a) = 0 THEN [ok |-> FALSE, at |-> a]
    ELSE [ok |-> TRUE, at |-> seek_utf8_cp_start_left(str, a - 1)]

\* try_seek_right_cp without the scan to the next boundary.
try_seek_right_cp_no_scan(str, a) ==
    IF byte_pos(str, a) = Len(str) THEN [ok |-> FALSE, at |-> a]
    ELSE [ok |-> TRUE, at |-> a + 1]

try_seek_right_cp(str, a) ==
    IF byte_pos(str, a) = Len(str) THEN [ok |-> FALSE, at |-> a]
    ELSE [ok |-> TRUE, at |-> seek_utf8_cp_start_right(str, a + 1)]

\* try_seek_left_gr that steps over one code point.
try_seek_left_gr_by_code_point(str, a) ==
    IF a = 0 THEN [ok |-> FALSE, at |-> a]
    ELSE [ok |-> TRUE, at |-> seek_utf8_cp_start_left(str, a - 1)]

try_seek_left_gr(str, a) ==
    LET gr == graphemes_next_back(slice_before(str, a)) IN
    IF gr.some THEN [ok |-> TRUE, at |-> a - gr.len]
    ELSE [ok |-> FALSE, at |-> a]

try_seek_right_gr(str, a) ==
    LET gr == graphemes_next(slice_after(str, a)) IN
    IF gr.some THEN [ok |-> TRUE, at |-> a + gr.len]
    ELSE [ok |-> FALSE, at |-> a]

\* match self.try_seek_...() { true => Some(self), false => None }
SomeIf(r) == IF r.ok THEN SomeCursor(r.at) ELSE NoCursor

\* at_prev that calls the rightward primitive.
at_prev_seeking_right(str, a) == SomeIf(try_seek_right_gr(str, a))

at_prev(str, a) == SomeIf(try_seek_left_gr(str, a))
at_next(str, a) == SomeIf(try_seek_right_gr(str, a))
at_prev_cp(str, a) == SomeIf(try_seek_left_cp(str, a))
at_next_cp(str, a) == SomeIf(try_seek_right_cp(str, a))

\* Gc::split_from that splits after the first code point.
Gc_split_from_first_cp(str, ptr) ==
    IF str = <<>> THEN NoGc
    ELSE LET l == len_utf8_of_lead(str[1]) IN
         [some |-> TRUE, ptr |-> ptr, gc |-> SubSeq(str, 1, l),
          rest |-> SubSeq(str, l + 1, Len(str))]

\* grapheme.rs: Gc::split_from, on the slice of the buffer that starts at ptr
Gc_split_from(str, ptr) ==
    LET gr == graphemes_next(str) IN
    IF ~gr.some THEN NoGc
    ELSE [some |-> TRUE, ptr |-> ptr, gc |-> SubSeq(str, 1, gr.len),
          rest |-> SubSeq(str, gr.len + 1, Len(str))]

after(str, a) == Gc_split_from(slice_after(str, a), a)

before(str, a) ==
    LET c == at_prev(str, a) IN
    IF c.some THEN after(str, c.pos) ELSE NoGc

cp_after(str, a) ==
    LET sa == slice_after(str, a) IN
    IF sa = <<>> THEN NoChar ELSE [some |-> TRUE, cp |-> first_char(sa)]

\* cp_before that reads the code point at the cursor.
cp_before_reading_at_cursor(str, a) ==
    IF a = 0 THEN NoChar ELSE cp_after(str, a)

cp_before(str, a) ==
    LET c == at_prev_cp(str, a) IN
    IF c.some THEN cp_after(str, c.pos) ELSE NoChar

(***************************************************************************)
(* grapheme.rs: Gc and GcBuf.  A cluster value is its bytes; Gc, &Gc and   *)
(* GcBuf differ in the trait implementations that apply to them.           *)
(***************************************************************************)
\* A cluster value held as Gc (&Gc) or as GcBuf; none is held at first.
NoCluster == [repr |-> "none", str |-> <<>>]
HeldGc(g) == [repr |-> "Gc", str |-> g]
HeldGcBuf(b) == [repr |-> "GcBuf", str |-> b]

\* Gc::from_str that does not look at the tail.
Gc_from_str_ignoring_tail(str) ==
    LET r == Gc_split_from(str, 0) IN
    IF r.some THEN [some |-> TRUE, gc |-> r.gc]
    ELSE [some |-> FALSE, gc |-> <<>>]

\* Gc::from_str: Option<&Gc> as [some, gc]
Gc_from_str(str) ==
    LET r == Gc_split_from(str, 0) IN
    IF r.some
    THEN IF Len(str) - Len(r.gc) = 0        \* tail.len() == 0
         THEN [some |-> TRUE, gc |-> r.gc]
         ELSE [some |-> FALSE, gc |-> <<>>]
    ELSE [some |-> FALSE, gc |-> <<>>]

as_str(g) == g
base_char(g) == first_char(g)

\* has_marks that tests for more than one byte.
has_marks_by_byte_count(g) == Len(as_str(g)) > 1

has_marks(g) == len_utf8(base_char(g)) # Len(as_str(g))

base(g) ==
    LET base_cp == base_char(g)
        base_len == len_utf8(base_cp)
    IN SubSeq(g, base_len + 1, Len(g))

\* mark_str that takes the base to be one byte long.
mark_str_after_first_byte(g) == SubSeq(g, 2, Len(g))

mark_str(g) ==
    LET base_cp == base_char(g)
        base_len == len_utf8(base_cp)
    IN SubSeq(g, base_len + 1, Len(g))

to_owned(g) == as_str(g)                   \* impl ToOwned for Gc
GcBuf_from_Gc(g) == as_str(g)              \* impl From<&Gc> for GcBuf
GcBuf_default == <<0>>                     \* String::from("\u{0}")
as_gc(b) == b                              \* GcBuf::as_gc

\* impl From<char> for GcBuf.  unreachable marks the debug_unreachable!()
\* branches; str is what &buf[..len] holds.
GcBuf_from_char(v) ==
    LET r == encode_utf8_raw(v, <<0, 0, 0, 0>>) IN
    IF r.some
    THEN [unreachable |-> ~(r.n < 4), str |-> SubSeq(r.dst, 1, r.n)]
    ELSE [unreachable |-> TRUE, str |-> <<>>]

\* char::partial_cmp and Ordering::reverse
cmp(a, b) == IF a < b THEN "Less" ELSE IF a = b THEN "Equal" ELSE "Greater"
reverse(o) ==
    IF o = "Less" THEN "Greater" ELSE IF o = "Greater" THEN "Less" ELSE o

\* Gc == char that looks at the base character only.
Gc_eq_char_ignoring_marks(g, ch) == base_char(g) = ch

\* impl PartialEq<char> for Gc, for &Gc, and forward_partial_eq! { GcBuf, char }
Gc_eq_char(g, ch) == ~has_marks(g) /\ base_char(g) = ch
RefGc_eq_char(g, ch) == ~has_marks(g) /\ base_char(g) = ch
GcBuf_eq_char(b, ch) == Gc_eq_char(as_gc(b), ch)

\* impl PartialEq<Gc> for char, PartialEq<&Gc> for char, and
\* forward_partial_eq! { ~ char, GcBuf }
char_eq_Gc(ch, g) == ch = base_char(g)
char_eq_RefGc(ch, g) == ch = base_char(g)
char_eq_GcBuf(ch, b) == Gc_eq_char(as_gc(b), ch)

\* impl PartialEq<str> for Gc, for &Gc; forward_partial_eq! { GcBuf, str };
\* impl PartialEq<Gc> for str, PartialEq<&Gc> for str; { ~ str, GcBuf }.
\* The implementations for &str and String compare the same bytes.
Gc_eq_str(g, x) == as_str(g) = x
RefGc_eq_str(g, x) == as_str(g) = x
GcBuf_eq_str(b, x) == Gc_eq_str(as_gc(b), x)
str_eq_Gc(x, g) == x = as_str(g)
str_eq_RefGc(x, g) == x = as_str(g)
str_eq_GcBuf(x, b) == Gc_eq_str(as_gc(b), x)

\* impl PartialOrd<Gc> for char and PartialOrd<&Gc> for char
char_partial_cmp_Gc(ch, g) == cmp(ch, base_char(g))
char_partial_cmp_RefGc(ch, g) == cmp(ch, base_char(g))

\* impl PartialOrd<char> for Gc
Gc_partial_cmp_char(g, ch) ==
    IF ~has_marks(g) THEN cmp(base_char(g), ch)
    ELSE IF cmp(base_char(g), ch) = "Equal" THEN "Less"
    ELSE cmp(base_char(g), ch)

\* impl PartialOrd<char> for &Gc: other.partial_cmp(self).map(Ordering::reverse)
RefGc_partial_cmp_char(g, ch) == reverse(char_partial_cmp_RefGc(ch, g))

\* forward_partial_ord! { GcBuf, char } and { ~ char, GcBuf }
GcBuf_partial_cmp_char(b, ch) == Gc_partial_cmp_char(as_gc(b), ch)
char_partial_cmp_GcBuf(ch, b) == reverse(Gc_partial_cmp_char(as_gc(b), ch))

(***************************************************************************)
(* cursor.rs: slices between two cursors.  Here a &str is [ptr, len], its  *)
(* start address and length, and a cursor is the struct [s, at] with at an *)
(* address.  The buffer s lies at address 0, the byte after it at Len(s),  *)
(* and a second allocation with the same contents at Len(s) + 1.           *)
(***************************************************************************)
StrOf(str) == [ptr |-> 0, len |-> Len(str)]
CopyOf(str) == [ptr |-> Len(str) + 1, len |-> Len(str)]

\* The byte stored at address addr.
MemByte(str, addr) ==
    IF addr < Len(str) THEN str[addr + 1]
    ELSE IF addr = Len(str) THEN past
    ELSE str[addr - Len(str)]

\* The contents of the &str v.
Bytes(str, v) == [i \in 1..v.len |-> MemByte(str, v.ptr + i - 1)]

StrCursor(v, a) == [s |-> v, at |-> a]
NoOther == StrCursor([ptr |-> 0, len |-> 0], 0)

NoStr == [some |-> FALSE, str |-> [ptr |-> 0, len |-> 0]]
SomeStr(p, l) == [some |-> TRUE, str |-> [ptr |-> p, len |-> l]]

\* The byte position of a cursor held with its &str: at - s.as_ptr().
StrCursor_byte_pos(c) == c.at - c.s.ptr

\* eq that compares the two pointers at only.
StrCursor_eq_by_at(a, b) == a.at = b.at

StrCursor_eq(a, b) ==
    (a.at = b.at) /\ (a.s.ptr = b.s.ptr) /\ (a.s.len = b.s.len)

StrCursor_ne(a, b) ==
    (a.at # b.at) \/ (a.s.ptr # b.s.ptr) \/ (a.s.len # b.s.len)

StrCursor_partial_cmp(a, b) ==
    IF (a.s.ptr # b.s.ptr) \/ (a.s.len # b.s.len) THEN "None"
    ELSE IF a.at < b.at THEN "Less"
    ELSE IF a.at = b.at THEN "Equal"
    ELSE "Greater"

\* str_eq_literal that compares the start addresses only.
str_eq_literal_by_address(a, b) == a.ptr = b.ptr

str_eq_literal(a, b) == a.ptr = b.ptr /\ a.len = b.len

min(x, y) == IF x <= y THEN x ELSE y
max(x, y) == IF x >= y THEN x ELSE y

\* unsafe_slice_until that orders the two cursors first.
unsafe_slice_until_unordered(c, e) ==
    [ptr |-> min(c.at, e.at), len |-> max(c.at, e.at) - min(c.at, e.at)]

unsafe_slice_until(c, e) ==
    LET beg == c.at
        end == e.at
        len == IF end >= beg THEN end - beg ELSE 0
    IN [ptr |-> beg, len |-> len]

\* slice_between that slices from self to the other cursor.
slice_between_from_self(c, o) ==
    IF ~str_eq_literal(c.s, o.s) THEN NoStr
    ELSE LET v == unsafe_slice_until(c, o) IN SomeStr(v.ptr, v.len)

slice_between(c, o) ==
    IF ~str_eq_literal(c.s, o.s) THEN NoStr
    ELSE LET beg == min(c.at, o.at)
             end == max(c.at, o.at)
             len == end - beg
         IN SomeStr(beg, len)

slice_until(c, e) ==
    IF ~str_eq_literal(c.s, e.s) THEN NoStr
    ELSE LET v == unsafe_slice_until(c, e) IN SomeStr(v.ptr, v.len)

(***************************************************************************)
(* cursor.rs: constructors.  A constructor yields [panic, at].             *)
(***************************************************************************)
Built(a) == [panic |-> FALSE, at |-> a]
CtorPanic == [panic |-> TRUE, at |-> 0]

new_at_start(str) == Built(0)

new_at_end(str) ==
    LET p == byte_pos_to_ptr(str, Len(str)) IN
    IF p.panic THEN CtorPanic ELSE Built(p.ptr)

new_at_cp_left_of_byte_pos(str, bp) ==
    LET p == byte_pos_to_ptr(str, bp) IN
    IF p.panic THEN CtorPanic
    ELSE Built(seek_utf8_cp_start_left(str, p.ptr))

\* new_at_cp_right_of_byte_pos that scans leftwards.
new_at_cp_right_of_byte_pos_scanning_left(str, bp) ==
    LET p == byte_pos_to_ptr(str, bp) IN
    IF p.panic THEN CtorPanic
    ELSE Built(seek_utf8_cp_start_left(str, p.ptr))

new_at_cp_right_of_byte_pos(str, bp) ==
    LET p == byte_pos_to_ptr(str, bp) IN
    IF p.panic THEN CtorPanic
    ELSE Built(seek_utf8_cp_start_right(str, p.ptr))

\* new_at_left_of_byte_pos that unwraps cur.at_prev().
new_at_left_of_byte_pos_unwrapping_prev(str, bp) ==
    LET cur == new_at_cp_left_of_byte_pos(str, bp) IN
    IF cur.panic THEN cur
    ELSE LET prv == at_prev(str, cur.at) IN
         IF ~prv.some THEN CtorPanic
         ELSE LET g == after(str, prv.pos) IN
              IF ~g.some THEN CtorPanic
              ELSE IF byte_pos(str, prv.pos) + Len(g.gc) > bp
                   THEN Built(prv.pos)
                   ELSE cur

new_at_left_of_byte_pos(str, bp) ==
    LET cur == new_at_cp_left_of_byte_pos(str, bp) IN
    IF cur.panic THEN cur
    ELSE LET prv == at_prev(str, cur.at) IN
         IF ~prv.some THEN cur
         ELSE LET g == after(str, prv.pos) IN
              IF ~g.some THEN CtorPanic   \* prev.after().unwrap()
              ELSE IF byte_pos(str, prv.pos) + Len(g.gc) > bp
                   THEN Built(prv.pos)
                   ELSE cur

\* new_at_right_of_byte_pos without the early return.
new_at_right_of_byte_pos_always_next(str, bp) ==
    LET cur == new_at_left_of_byte_pos(str, bp) IN
    IF cur.panic THEN cur
    ELSE LET n == at_next(str, cur.at) IN
         IF n.some THEN Built(n.pos) ELSE CtorPanic

new_at_right_of_byte_pos(str, bp) ==
    LET cur == new_at_left_of_byte_pos(str, bp) IN
    IF cur.panic THEN cur
    ELSE IF byte_pos(str, cur.at) = bp THEN cur
    ELSE LET n == at_next(str, cur.at) IN
         IF n.some THEN Built(n.pos) ELSE CtorPanic   \* cur.at_next().unwrap()

(***************************************************************************)
(* cursor.rs: the combined steps and the in-place seeks                    *)
(***************************************************************************)
\* unsafe_set_at(g.as_str()): the cursor moves to where g starts.
prev(str, a) ==
    LET g == before(str, a) IN
    IF ~g.some THEN RetNone ELSE RetSome(g.ptr, g.gc)

\* prev_cp that seeks one byte to the left.
prev_cp_one_byte_left(str, a) ==
    LET cp == cp_before(str, a) IN
    IF ~cp.some THEN RetNone ELSE RetSome(a - 1, <<cp.cp>>)

prev_cp(str, a) ==
    LET cp == cp_before(str, a) IN
    IF ~cp.some THEN RetNone ELSE RetSome(a - len_utf8(cp.cp), <<cp.cp>>)

next(str, a) ==
    LET g == after(str, a) IN
    IF ~g.some THEN RetNone ELSE RetSome(a + Len(g.gc), g.gc)

next_cp(str, a) ==
    LET cp == cp_after(str, a) IN
    IF ~cp.some THEN RetNone ELSE RetSome(a + len_utf8(cp.cp), <<cp.cp>>)

(***************************************************************************)
(* cursor.rs: the predicate methods.  A predicate of the model is the set  *)
(* P of characters it accepts: |cp| P.contains(&cp) on code points and     *)
(* |gc| P.contains(&gc.base_char()) on clusters.  Each method is its loop, *)
(* with `start` the receiver and `a` the loop's cursor `at`; it yields     *)
(* (&str, cursor) as [str, at].                                            *)
(***************************************************************************)
GcPred(P, g) == base_char(g) \in P
CpPred(P, cp) == cp \in P

\* (from.unsafe_slice_until(to), at)
Scanned(str, from, to, a) ==
    [str |-> unsafe_slice_until(StrCursor(StrOf(str), from),
                                StrCursor(StrOf(str), to)),
     at |-> a]

RECURSIVE before_while(_, _, _, _)
before_while(str, start, a, P) ==
    LET r == prev(str, a) IN
    IF r.kind = "none" THEN Scanned(str, a, start, a)
    ELSE IF GcPred(P, r.elem) THEN before_while(str, start, r.pos, P)
    ELSE Scanned(str, a, start, a)

\* after_while that looks at one cluster only.
after_while_once(str, start, a, P) ==
    LET r == next(str, a) IN
    IF r.kind = "none" THEN Scanned(str, start, a, a)
    ELSE IF GcPred(P, r.elem) THEN Scanned(str, start, r.pos, r.pos)
    ELSE Scanned(str, start, a, a)

RECURSIVE after_while(_, _, _, _)
after_while(str, start, a, P) ==
    LET r == next(str, a) IN
    IF r.kind = "none" THEN Scanned(str, start, a, a)
    ELSE IF GcPred(P, r.elem) THEN after_while(str, start, r.pos, P)
    ELSE Scanned(str, start, a, a)

RECURSIVE cp_before_while(_, _, _, _)
cp_before_while(str, start, a, P) ==
    LET r == prev_cp(str, a) IN
    IF r.kind = "none" THEN Scanned(str, a, start, a)
    ELSE IF CpPred(P, r.elem[1]) THEN cp_before_while(str, start, r.pos, P)
    ELSE Scanned(str, a, start, a)

RECURSIVE cp_after_while(_, _, _, _)
cp_after_while(str, start, a, P) ==
    LET r == next_cp(str, a) IN
    IF r.kind = "none" THEN Scanned(str, start, a, a)
    ELSE IF CpPred(P, r.elem[1]) THEN cp_after_while(str, start, r.pos, P)
    ELSE Scanned(str, start, a, a)

(***************************************************************************)
(* The calls an operation makes.  ..._queries counts the calls of          *)
(* UniSeg::graphemes(..).next() / .next_back() made by one call of the     *)
(* method; scan_calls counts, for one ..._while call, the stepping calls   *)
(* that returned an element (steps), the one that returned None (edge) and *)
(* the predicate calls (preds).                                            *)
(***************************************************************************)
try_seek_left_gr_queries(str, a) == 1
Gc_split_from_queries(str) == 1
after_queries(str, a) == Gc_split_from_queries(slice_after(str, a))
before_queries(str, a) ==
    LET c == at_prev(str, a) IN
    try_seek_left_gr_queries(str, a)
        + (IF c.some THEN after_queries(str, c.pos) ELSE 0)
prev_queries(str, a) == before_queries(str, a)
next_queries(str, a) == after_queries(str, a)

scan_step(name, str, a) ==
    IF name = "before_while" THEN prev(str, a)
    ELSE IF name = "after_while" THEN next(str, a)
    ELSE IF name = "cp_before_while" THEN prev_cp(str, a)
    ELSE next_cp(str, a)

scan_predicate(name, P, elem) ==
    IF name \in {"before_while", "after_while"} THEN GcPred(P, elem)
    ELSE CpPred(P, elem[1])

RECURSIVE scan_calls_from(_, _, _, _, _)
scan_calls_from(name, str, a, P, k) ==
    LET r == scan_step(name, str, a) IN
    IF r.kind = "none" THEN [steps |-> k, edge |-> 1, preds |-> k]
    ELSE IF scan_predicate(name, P, r.elem)
         THEN scan_calls_from(name, str, r.pos, P, k + 1)
         ELSE [steps |-> k + 1, edge |-> 0, preds |-> k + 1]

scan_calls(name, str, a, P) == scan_calls_from(name, str, a, P, 0)

\* if !self.try_seek_...() { panic!(...) }
PanicUnless(r) == [panic |-> ~r.ok, at |-> r.at]

seek_prev(str, a) == PanicUnless(try_seek_left_gr(str, a))
seek_next(str, a) == PanicUnless(try_seek_right_gr(str, a))
seek_prev_cp(str, a) == PanicUnless(try_seek_left_cp(str, a))
seek_next_cp(str, a) == PanicUnless(try_seek_right_cp(str, a))

\* lib.rs, the crate root, defines StrCursor as well; its seek_prev differs.
lib_seek_prev(str, a) == PanicUnless(try_seek_right_gr(str, a))

(***************************************************************************)
(* The state machine                                                       *)
(***************************************************************************)
BytePositions(str) == 0..(Len(str) + 1)

Init ==
    /\ s \in Buffers
    /\ past \in PastBytes
    /\ at = 0
    /\ op = "init"
    /\ arg = 0
    /\ at0 = 0
    /\ ret = Unit
    /\ cpUsed = FALSE
    /\ f = "none"
    /\ calls = 0
    /\ other = NoOther
    /\ gc = NoCluster

\* let cur = StrCursor::new_at_...(s, bp);
Construct(name, bp, r, cp) ==
    /\ op = "init"
    /\ f = "none"
    /\ op' = name
    /\ arg' = bp
    /\ at' = IF r.panic THEN at ELSE r.at
    /\ at0' = at
    /\ ret' = IF r.panic THEN RetPanic ELSE Unit
    /\ cpUsed' = cp
    /\ UNCHANGED <<s, past, f, calls, other, gc>>

NewAtStart == Construct("new_at_start", 0, new_at_start(s), FALSE)
NewAtEnd == Construct("new_at_end", 0, new_at_end(s), FALSE)
NewAtLeftOfBytePos ==
    \E bp \in BytePositions(s) :
        Construct("new_at_left_of_byte_pos", bp, new_at_left_of_byte_pos(s, bp), FALSE)
NewAtRightOfBytePos ==
    \E bp \in BytePositions(s) :
        Construct("new_at_right_of_byte_pos", bp, new_at_right_of_byte_pos(s, bp), FALSE)
NewAtCpLeftOfBytePos ==
    \E bp \in BytePositions(s) :
        Construct("new_at_cp_left_of_byte_pos", bp, new_at_cp_left_of_byte_pos(s, bp), TRUE)
NewAtCpRightOfBytePos ==
    \E bp \in BytePositions(s) :
        Construct("new_at_cp_right_of_byte_pos", bp, new_at_cp_right_of_byte_pos(s, bp), TRUE)

\* The cursor exists and the program has not panicked.
Live == op # "init" /\ ret.kind # "panic" /\ f = "none"

\* let r = cur.at_next(); and the like: cur is Copy, the receiver stays.
Step(name, r, cp) ==
    /\ Live
    /\ op' = name
    /\ arg' = 0
    /\ at0' = at
    /\ at' = at
    /\ ret' = r
    /\ cpUsed' = (cpUsed \/ cp)
    /\ UNCHANGED <<s, past, f, calls, other, gc>>

OfOption(c) == IF c.some THEN RetSome(c.pos, <<>>) ELSE RetNone

AtPrev == Step("at_prev", OfOption(at_prev(s, at)), FALSE)
AtNext == Step("at_next", OfOption(at_next(s, at)), FALSE)
AtPrevCp == Step("at_prev_cp", OfOption(at_prev_cp(s, at)), TRUE)
AtNextCp == Step("at_next_cp", OfOption(at_next_cp(s, at)), TRUE)
Prev == Step("prev", prev(s, at), FALSE)
Next_ == Step("next", next(s, at), FALSE)
PrevCp == Step("prev_cp", prev_cp(s, at), TRUE)
NextCp == Step("next_cp", next_cp(s, at), TRUE)

\* cur.seek_next(); and the like: the cursor moves in place, or the call panics.
Seek(name, r, cp) ==
    /\ Live
    /\ op' = name
    /\ arg' = 0
    /\ at0' = at
    /\ at' = r.at
    /\ ret' = IF r.panic THEN RetPanic ELSE Unit
    /\ cpUsed' = (cpUsed \/ cp)
    /\ UNCHANGED <<s, past, f, calls, other, gc>>

SeekPrev == Seek("seek_prev", seek_prev(s, at), FALSE)
SeekNext == Seek("seek_next", seek_next(s, at), FALSE)
SeekPrevCp == Seek("seek_prev_cp", seek_prev_cp(s, at), TRUE)
SeekNextCp == Seek("seek_next_cp", seek_next_cp(s, at), TRUE)
LibSeekPrev == Seek("seek_prev", lib_seek_prev(s, at), FALSE)

\* let c2 = StrCursor::new_at_cp_left_of_byte_pos(s, cur.byte_pos()); for the
\* cursor cur that new_at_cp_left_of_byte_pos built.
SnapAgain ==
    /\ Live
    /\ op = "new_at_cp_left_of_byte_pos"
    /\ LET r == new_at_cp_left_of_byte_pos(s, byte_pos(s, at)) IN
        /\ op' = "snap_again"
        /\ arg' = byte_pos(s, at)
        /\ at0' = at
        /\ at' = IF r.panic THEN at ELSE r.at
        /\ ret' = IF r.panic THEN RetPanic ELSE Unit
    /\ UNCHANGED <<s, past, cpUsed, f, calls, other, gc>>

\* The byte after the buffer is not the str's: its owner stores to it.
StoreAfterBuffer ==
    /\ past' \in PastBytes \ {past}
    /\ UNCHANGED <<s, at, op, arg, at0, ret, cpUsed, f, calls, other, gc>>

\* cur = c; for the cursor c the last step returned.
Rebind ==
    /\ Live
    /\ ret.kind = "cursor"
    /\ op' = "rebind"
    /\ arg' = 0
    /\ at0' = at
    /\ at' = ret.pos
    /\ ret' = Unit
    /\ UNCHANGED <<s, past, cpUsed, f, calls, other, gc>>

Next ==
    \/ NewAtStart \/ NewAtEnd
    \/ NewAtLeftOfBytePos \/ NewAtRightOfBytePos
    \/ NewAtCpLeftOfBytePos \/ NewAtCpRightOfBytePos
    \/ AtPrev \/ AtNext \/ AtPrevCp \/ AtNextCp
    \/ Prev \/ Next_ \/ PrevCp \/ NextCp
    \/ SeekPrev \/ SeekNext \/ SeekPrevCp \/ SeekNextCp \/ LibSeekPrev
    \/ Rebind
    \/ SnapAgain
    \/ StoreAfterBuffer

Spec == Init /\ [][Next]_vars

(***************************************************************************)
(* tests/util/mod.rs: finite_iterate(cur, step) applies one step function  *)
(* to the cursor again and again until it returns None.                    *)
(***************************************************************************)
RightSteps == {"at_next", "at_next_cp"}
LeftSteps == {"at_prev", "at_prev_cp"}

Apply(g, str, a) ==
    CASE g = "at_next" -> at_next(str, a)
      [] g = "at_next_cp" -> at_next_cp(str, a)
      [] g = "at_prev" -> at_prev(str, a)
      [] g = "at_prev_cp" -> at_prev_cp(str, a)

\* finite_iterate(StrCursor::new_at_start(s), StrCursor::at_next) and the like
WalkInit ==
    /\ s \in Buffers
    /\ past \in PastBytes
    /\ f \in RightSteps \cup LeftSteps
    /\ at = IF f \in RightSteps THEN new_at_start(s).at ELSE new_at_end(s).at
    /\ op = IF f \in RightSteps THEN "new_at_start" ELSE "new_at_end"
    /\ arg = 0
    /\ at0 = at
    /\ ret = Unit
    /\ cpUsed = (f \in {"at_next_cp", "at_prev_cp"})
    /\ calls = 0
    /\ other = NoOther
    /\ gc = NoCluster

\* No walk over a buffer of the model needs as many calls as this.
WalkCap == 4 * MaxCps + 3

\* FiniteIter::next: self.0.take().and_then(|last| match f(last) { ... })
FiniteIterNext ==
    /\ f # "none"
    /\ ret.kind # "none"
    /\ calls < WalkCap
    /\ LET r == Apply(f, s, at) IN
        /\ op' = f
        /\ arg' = 0
        /\ at0' = at
        /\ at' = IF r.some THEN r.pos ELSE at
        /\ ret' = OfOption(r)
    /\ calls' = calls + 1
    /\ UNCHANGED <<s, past, cpUsed, f, other, gc>>

WalkNext == FiniteIterNext

\* The iterator is driven until it is exhausted.
WalkSpec == WalkInit /\ [][WalkNext]_vars /\ WF_vars(FiniteIterNext)

(***************************************************************************)
(* Two cursors and the slices between them (tests/cursor.rs,               *)
(* test_slice_between and test_slice_until): cur over the buffer s, and    *)
(* the other over s, over a sub-slice &s[i..j], or over a second buffer    *)
(* with the same contents.                                                 *)
(***************************************************************************)
\* The cursor cur as a struct.
Cur == StrCursor(StrOf(s), at)

\* &s[i..j], for code-point boundaries i <= j (any other slicing panics).
SubSlices(str) ==
    LET B == {b \in 0..Len(str) : new_at_cp_right_of_byte_pos(str, b).at = b}
    IN {[ptr |-> p[1], len |-> p[2] - p[1]] :
            p \in {q \in B \X B : q[1] <= q[2]}}

\* The cursors StrCursor::new_at_cp_right_of_byte_pos(v, bp) over the &str v.
CursorsOver(str, v) ==
    {StrCursor(v, v.ptr + new_at_cp_right_of_byte_pos(Bytes(str, v), bp).at) :
        bp \in 0..v.len}

SliceInit ==
    /\ s \in Buffers
    /\ past \in PastBytes
    /\ at \in {new_at_cp_right_of_byte_pos(s, bp).at : bp \in 0..Len(s)}
    /\ op = "new_at_cp_right_of_byte_pos"
    /\ arg = at
    /\ at0 = 0
    /\ ret = Unit
    /\ cpUsed = TRUE
    /\ f = "none"
    /\ calls = 0
    /\ other \in UNION {CursorsOver(s, v) :
                            v \in {StrOf(s), CopyOf(s)} \cup SubSlices(s)}
    /\ gc = NoCluster

\* Option<&str> as a result: the slice's address and its contents.
OfStr(r) ==
    IF r.some THEN [kind |-> "str", pos |-> r.str.ptr, elem |-> Bytes(s, r.str)]
    ELSE RetNone

\* let r = cur.slice_between(other);
SliceBetween ==
    /\ op' = "slice_between"
    /\ at0' = at
    /\ ret' = OfStr(slice_between(Cur, other))
    /\ UNCHANGED <<s, past, at, arg, cpUsed, f, calls, other, gc>>

\* let r = cur.slice_until(other);
SliceUntil ==
    /\ op' = "slice_until"
    /\ at0' = at
    /\ ret' = OfStr(slice_until(Cur, other))
    /\ UNCHANGED <<s, past, at, arg, cpUsed, f, calls, other, gc>>

\* let e = cur == other; let n = cur != other; let o = cur.partial_cmp(&other);
Compare ==
    /\ op' = "compare"
    /\ at0' = at
    /\ ret' = [kind |-> "compared",
               eq |-> StrCursor_eq(Cur, other),
               ne |-> StrCursor_ne(Cur, other),
               ord |-> StrCursor_partial_cmp(Cur, other)]
    /\ UNCHANGED <<s, past, at, arg, cpUsed, f, calls, other, gc>>

SliceNext == SliceBetween \/ SliceUntil \/ Compare

SliceSpec == SliceInit /\ [][SliceNext]_vars

(***************************************************************************)
(* Predicate scans (tests/predicate.rs): from a cursor cur on any code     *)
(* point boundary of s, one of the four ..._while methods is called with a *)
(* predicate.                                                              *)
(***************************************************************************)
Preds == SUBSET Alphabet

ScanInit ==
    /\ s \in Buffers
    /\ past \in PastBytes
    /\ at \in {new_at_cp_right_of_byte_pos(s, bp).at : bp \in 0..Len(s)}
    /\ op = "new_at_cp_right_of_byte_pos"
    /\ arg = at
    /\ at0 = 0
    /\ ret = Unit
    /\ cpUsed = TRUE
    /\ f = "none"
    /\ calls = 0
    /\ other = NoOther
    /\ gc = NoCluster

\* let (t, c2) = cur.after_while(p); and the like: t's address and contents
\* and c2's offset are returned.  cur is Copy and stays as it was, so the
\* one call made on it stands for every later one.
Scan(name, P, r) ==
    /\ op = "new_at_cp_right_of_byte_pos"
    /\ op' = name
    /\ arg' = P
    /\ at0' = at
    /\ ret' = [kind |-> "scan", pos |-> r.at, elem |-> Bytes(s, r.str),
               ptr |-> r.str.ptr]
    /\ UNCHANGED <<s, past, at, cpUsed, f, calls, other, gc>>

BeforeWhile ==
    \E P \in Preds : Scan("before_while", P, before_while(s, at, at, P))
AfterWhile ==
    \E P \in Preds : Scan("after_while", P, after_while(s, at, at, P))
CpBeforeWhile ==
    \E P \in Preds : Scan("cp_before_while", P, cp_before_while(s, at, at, P))
CpAfterWhile ==
    \E P \in Preds : Scan("cp_after_while", P, cp_after_while(s, at, at, P))

ScanNext == BeforeWhile \/ AfterWhile \/ CpBeforeWhile \/ CpAfterWhile

ScanSpec == ScanInit /\ [][ScanNext]_vars

(***************************************************************************)
(* Two cursors over one buffer: a (at), made by new_at_start, and b        *)
(* (other), made by new_at_end, each held by its own thread of the         *)
(* program, which calls the cursor's methods in any order; the steps of    *)
(* the two threads interleave.  f names the cursor whose method ran last,  *)
(* at0 its position before the call, ret the result.  A panic ends the     *)
(* program.                                                                *)
(***************************************************************************)
NonMutating == {"at_prev", "at_next", "at_prev_cp", "at_next_cp", "prev",
                "next", "before", "after", "slice_before", "slice_after"}
Mutating == {"seek_prev", "seek_next", "seek_prev_cp", "seek_next_cp"}

OfGc(g) ==
    IF g.some THEN [kind |-> "gc", pos |-> g.ptr, elem |-> g.gc] ELSE RetNone
OfSeek(r) == [at |-> r.at, ret |-> IF r.panic THEN RetPanic ELSE Unit]

\* Seeks that do not move the cursor past the position of the other cursor.
seeks_stopping_at_other(name, str, a) ==
    LET r == CASE name = "seek_prev" -> seek_prev(str, a)
               [] name = "seek_next" -> seek_next(str, a)
               [] name = "seek_prev_cp" -> seek_prev_cp(str, a)
               [] OTHER -> seek_next_cp(str, a)
    IN IF (a < other.at /\ r.at > other.at) \/ (a > other.at /\ r.at < other.at)
       THEN [at |-> other.at, ret |-> Unit]
       ELSE OfSeek(r)

\* The in-place seeks (&mut self) by name: the new position and the result.
seeks(name, str, a) ==
    CASE name = "seek_prev" -> OfSeek(seek_prev(str, a))
      [] name = "seek_next" -> OfSeek(seek_next(str, a))
      [] name = "seek_prev_cp" -> OfSeek(seek_prev_cp(str, a))
      [] OTHER -> OfSeek(seek_next_cp(str, a))

\* The methods taking self or &self by name: the result.
steps(name, str, a) ==
    CASE name = "at_prev" -> OfOption(at_prev(str, a))
      [] name = "at_next" -> OfOption(at_next(str, a))
      [] name = "at_prev_cp" -> OfOption(at_prev_cp(str, a))
      [] name = "at_next_cp" -> OfOption(at_next_cp(str, a))
      [] name = "prev" -> prev(str, a)
      [] name = "next" -> next(str, a)
      [] name = "before" -> OfGc(before(str, a))
      [] name = "after" -> OfGc(after(str, a))
      [] name = "slice_before" ->
            [kind |-> "str", pos |-> 0, elem |-> slice_before(str, a)]
      [] OTHER -> [kind |-> "str", pos |-> a, elem |-> slice_after(str, a)]

\* None of the methods called here reads the byte after the buffer, which
\* is left at one value.
PairInit ==
    /\ s \in Buffers
    /\ past = 0
    /\ at = new_at_start(s).at
    /\ other = StrCursor(StrOf(s), new_at_end(s).at)
    /\ op = "new_at_end"
    /\ arg = 0
    /\ at0 = 0
    /\ ret = Unit
    /\ cpUsed = TRUE
    /\ f = "none"
    /\ calls = 0
    /\ gc = NoCluster

PairPos(who) == IF who = "a" THEN at ELSE other.at

\* One method call by the thread holding cursor who; pos is the cursor's
\* position after the call.
PairCall(who, name, pos, r) ==
    /\ ret.kind # "panic"
    /\ f' = who
    /\ op' = name
    /\ at0' = PairPos(who)
    /\ ret' = r
    /\ at' = IF who = "a" THEN pos ELSE at
    /\ other' = IF who = "b" THEN StrCursor(other.s, pos) ELSE other
    /\ UNCHANGED <<s, past, arg, cpUsed, calls, gc>>

\* let r = cur.at_next(); and the like.
PairStep ==
    \E who \in {"a", "b"}, name \in NonMutating :
        PairCall(who, name, PairPos(who), steps(name, s, PairPos(who)))

\* cur.seek_next(); and the like.
PairSeek ==
    \E who \in {"a", "b"}, name \in Mutating :
        LET r == seeks(name, s, PairPos(who)) IN
        PairCall(who, name, r.at, r.ret)

PairNext == PairStep \/ PairSeek

PairSpec == PairInit /\ [][PairNext]_vars

(***************************************************************************)
(* Iteration adapters (iter.rs): the program takes a cursor c on any code   *)
(* point boundary of s, makes one of the eight adapters from it            *)
(* (c.iter_before(), c.iter_before().with_cursor(), ...) and calls the     *)
(* adapter's next() repeatedly.  f names the adapter, at is the cursor the  *)
(* adapter stores (self.0), arg the position of c, calls the number of     *)
(* next() calls made and ret the last item.                                *)
(***************************************************************************)
IterCap == MaxCps + 2

PlainIters == {"IterBefore", "IterAfter", "IterCpBefore", "IterCpAfter"}
CursorIters == {"IterBeforeCursor", "IterAfterCursor",
                "IterCpBeforeCursor", "IterCpAfterCursor"}

\* Some(x), for the adapters that yield the element alone.
Item(x) == [kind |-> "item", pos |-> 0, elem |-> x]

IterInit ==
    /\ s \in Buffers
    /\ past \in PastBytes
    /\ at \in {new_at_cp_right_of_byte_pos(s, bp).at : bp \in 0..Len(s)}
    /\ op = "iter"
    /\ arg = at
    /\ at0 = at
    /\ ret = Unit
    /\ cpUsed = TRUE
    /\ f \in PlainIters \cup CursorIters
    /\ calls = 0
    /\ other = NoOther
    /\ gc = NoCluster

\* match self.0.step() { Some((x, cur)) => { self.0 = cur; Some(..) },
\*                       None => None }
IterNext(name, r, item) ==
    /\ f = name
    /\ calls < IterCap
    /\ op' = "Iterator::next"
    /\ at0' = at
    /\ at' = IF r.kind = "none" THEN at ELSE r.pos
    /\ ret' = IF r.kind = "none" THEN RetNone ELSE item
    /\ calls' = calls + 1
    /\ UNCHANGED <<s, past, arg, cpUsed, f, other, gc>>

IterBeforeNext ==
    LET r == prev(s, at) IN IterNext("IterBefore", r, Item(r.elem))
IterBeforeCursorNext ==
    LET r == prev(s, at) IN IterNext("IterBeforeCursor", r, r)
IterAfterNext ==
    LET r == next(s, at) IN IterNext("IterAfter", r, Item(r.elem))
IterAfterCursorNext ==
    LET r == next(s, at) IN IterNext("IterAfterCursor", r, r)
IterCpBeforeNext ==
    LET r == prev_cp(s, at) IN IterNext("IterCpBefore", r, Item(r.elem))
IterCpBeforeCursorNext ==
    LET r == prev_cp(s, at) IN IterNext("IterCpBeforeCursor", r, r)
IterCpAfterNext ==
    LET r == next_cp(s, at) IN IterNext("IterCpAfter", r, Item(r.elem))
IterCpAfterCursorNext ==
    LET r == next_cp(s, at) IN IterNext("IterCpAfterCursor", r, r)

IterNext_ ==
    \/ IterBeforeNext \/ IterBeforeCursorNext
    \/ IterAfterNext \/ IterAfterCursorNext
    \/ IterCpBeforeNext \/ IterCpBeforeCursorNext
    \/ IterCpAfterNext \/ IterCpAfterCursorNext

IterSpec == IterInit /\ [][IterNext_]_vars

(***************************************************************************)
(* The same programs with their calls counted: from a cursor cur on any    *)
(* code point boundary of s, cur.prev(), cur.next() or one of the ..._while *)
(* methods is called once; calls is the number of oracle queries the call  *)
(* made and ret carries the result with the scan's call counts.            *)
(***************************************************************************)
ScanNames == {"before_while", "after_while", "cp_before_while", "cp_after_while"}

CountInit == ScanInit

CountPrev ==
    /\ op = "new_at_cp_right_of_byte_pos"
    /\ op' = "prev"
    /\ at0' = at
    /\ ret' = prev(s, at)
    /\ calls' = prev_queries(s, at)
    /\ UNCHANGED <<s, past, at, arg, cpUsed, f, other, gc>>

CountNext ==
    /\ op = "new_at_cp_right_of_byte_pos"
    /\ op' = "next"
    /\ at0' = at
    /\ ret' = next(s, at)
    /\ calls' = next_queries(s, at)
    /\ UNCHANGED <<s, past, at, arg, cpUsed, f, other, gc>>

CountScan(name, P, r, c) ==
    /\ op = "new_at_cp_right_of_byte_pos"
    /\ op' = name
    /\ arg' = P
    /\ at0' = at
    /\ ret' = [kind |-> "scan", pos |-> r.at, elem |-> Bytes(s, r.str),
               steps |-> c.steps, edge |-> c.edge, preds |-> c.preds]
    /\ UNCHANGED <<s, past, at, cpUsed, f, calls, other, gc>>

CountBeforeWhile ==
    \E P \in Preds : CountScan("before_while", P, before_while(s, at, at, P),
                               scan_calls("before_while", s, at, P))
CountAfterWhile ==
    \E P \in Preds : CountScan("after_while", P, after_while(s, at, at, P),
                               scan_calls("after_while", s, at, P))
CountCpBeforeWhile ==
    \E P \in Preds : CountScan("cp_before_while", P,
                               cp_before_while(s, at, at, P),
                               scan_calls("cp_before_while", s, at, P))
CountCpAfterWhile ==
    \E P \in Preds : CountScan("cp_after_while", P,
                               cp_after_while(s, at, at, P),
                               scan_calls("cp_after_while", s, at, P))

CountNext_ ==
    \/ CountPrev \/ CountNext
    \/ CountBeforeWhile \/ CountAfterWhile
    \/ CountCpBeforeWhile \/ CountCpAfterWhile

CountSpec == CountInit /\ [][CountNext_]_vars

(***************************************************************************)
(* Cluster values (tests/gc.rs): the program obtains a cluster from the    *)
(* string s or from a character, derives clusters from it, and compares    *)
(* it with characters and strings.                                         *)
(***************************************************************************)
GcInit ==
    /\ s \in Buffers
    /\ past = 0
    /\ at = 0
    /\ op = "init"
    /\ arg = 0
    /\ at0 = 0
    /\ ret = Unit
    /\ cpUsed = FALSE
    /\ f = "none"
    /\ calls = 0
    /\ other = NoOther
    /\ gc = NoCluster

\* The program has not panicked.
GcLive == ret.kind # "panic"

\* An operation that yields Option<&Gc>, Some(g) being kept.
Obtain(name, a, r) ==
    /\ GcLive
    /\ op' = name
    /\ arg' = a
    /\ ret' = IF r.some THEN Unit ELSE RetNone
    /\ gc' = IF r.some THEN HeldGc(r.gc) ELSE gc
    /\ UNCHANGED <<s, past, at, at0, cpUsed, f, calls, other>>

GcFromStr == Obtain("Gc::from_str", 0, Gc_from_str(s))

\* let r = Gc::split_from(s); Some((g, rest)): g is kept, rest is returned.
GcSplitFrom ==
    LET r == Gc_split_from(s, 0) IN
    /\ GcLive
    /\ op' = "Gc::split_from"
    /\ arg' = 0
    /\ ret' = IF r.some THEN [kind |-> "split", pos |-> 0, elem |-> r.rest]
              ELSE RetNone
    /\ gc' = IF r.some THEN HeldGc(r.gc) ELSE gc
    /\ UNCHANGED <<s, past, at, at0, cpUsed, f, calls, other>>

\* StrCursor::new_at_cp_right_of_byte_pos(s, bp).after() and .before()
CursorAfter ==
    \E bp \in 0..Len(s) :
        Obtain("after", bp, after(s, new_at_cp_right_of_byte_pos(s, bp).at))
CursorBefore ==
    \E bp \in 0..Len(s) :
        Obtain("before", bp, before(s, new_at_cp_right_of_byte_pos(s, bp).at))

\* An operation that yields a cluster from the one held.
Derive(name, c) ==
    /\ GcLive
    /\ gc.repr # "none"
    /\ gc.str # <<>>
    /\ op' = name
    /\ arg' = 0
    /\ ret' = Unit
    /\ gc' = c
    /\ UNCHANGED <<s, past, at, at0, cpUsed, f, calls, other>>

GcBase == Derive("base", HeldGc(base(gc.str)))
GcToOwned == Derive("to_owned", HeldGcBuf(to_owned(gc.str)))
GcBufFromGc == Derive("GcBuf::from(&Gc)", HeldGcBuf(GcBuf_from_Gc(gc.str)))
GcBufAsGc == Derive("as_gc", HeldGc(as_gc(gc.str)))

\* GcBuf::default()
GcBufDefault ==
    /\ GcLive
    /\ op' = "GcBuf::default"
    /\ arg' = 0
    /\ ret' = Unit
    /\ gc' = HeldGcBuf(GcBuf_default)
    /\ UNCHANGED <<s, past, at, at0, cpUsed, f, calls, other>>

\* GcBuf::from(ch).  debug_unreachable!() panics in a debug build; in a
\* release build it is unreachable_unchecked, and the test that guards it is
\* dropped, which leaves &buf[..len].
GcBufFromChar ==
    \E ch \in Alphabet :
        LET r == GcBuf_from_char(ch) IN
        /\ GcLive
        /\ op' = "GcBuf::from(char)"
        /\ arg' = ch
        /\ \/ /\ r.unreachable
              /\ ret' = RetPanic
              /\ gc' = gc
           \/ /\ ret' = Unit
              /\ gc' = HeldGcBuf(r.str)
        /\ UNCHANGED <<s, past, at, at0, cpUsed, f, calls, other>>

\* A method that reads the base character of a cluster that has no bytes:
\* base_char's debug_unreachable!() panics in a debug build and is undefined
\* in a release build, where any character may come out.
BaseCharOfEmpty ==
    /\ GcLive
    /\ gc.repr # "none"
    /\ gc.str = <<>>
    /\ op' = "base_char"
    /\ arg' = 0
    /\ \/ ret' = RetPanic
       \/ \E ch \in Alphabet : ret' = [kind |-> "char", cp |-> ch]
    /\ UNCHANGED <<s, past, at, at0, cpUsed, f, calls, other, gc>>

\* let m = g.has_marks(); let c = g.base_char(); let t = g.mark_str();
\* let b = g.base().as_str(); (a GcBuf derefs to Gc).
Inspect ==
    /\ GcLive
    /\ gc.repr # "none"
    /\ gc.str # <<>>
    /\ op' = "inspect"
    /\ arg' = 0
    /\ ret' = [kind |-> "parts",
               has_marks |-> has_marks(gc.str),
               base_char |-> base_char(gc.str),
               mark_str |-> mark_str(gc.str),
               base |-> as_str(base(gc.str))]
    /\ UNCHANGED <<s, past, at, at0, cpUsed, f, calls, other, gc>>

\* let e = (g == ch); let o = g.partial_cmp(&ch); by the implementations
\* for the type the cluster is held as.
CompareChar ==
    \E ch \in Alphabet :
        /\ GcLive
        /\ gc.repr # "none"
        /\ gc.str # <<>>
        /\ op' = "cmp_char"
        /\ arg' = ch
        /\ ret' = [kind |-> "cmp",
                   eq |-> IF gc.repr = "GcBuf" THEN GcBuf_eq_char(gc.str, ch)
                          ELSE Gc_eq_char(gc.str, ch),
                   ord |-> IF gc.repr = "GcBuf"
                           THEN GcBuf_partial_cmp_char(gc.str, ch)
                           ELSE Gc_partial_cmp_char(gc.str, ch)]
        /\ UNCHANGED <<s, past, at, at0, cpUsed, f, calls, other, gc>>

\* let e = (g == *s); the cluster against the text it was taken from.
CompareStr ==
    /\ GcLive
    /\ gc.repr # "none"
    /\ gc.str # <<>>
    /\ op' = "cmp_str"
    /\ arg' = 0
    /\ ret' = [kind |-> "cmp",
               eq |-> IF gc.repr = "GcBuf" THEN GcBuf_eq_str(gc.str, s)
                      ELSE Gc_eq_str(gc.str, s),
               ord |-> "Equal"]
    /\ UNCHANGED <<s, past, at, at0, cpUsed, f, calls, other, gc>>

GcNext ==
    \/ GcFromStr \/ GcSplitFrom \/ CursorAfter \/ CursorBefore
    \/ GcBase \/ GcToOwned \/ GcBufFromGc \/ GcBufAsGc
    \/ GcBufDefault \/ GcBufFromChar
    \/ BaseCharOfEmpty
    \/ Inspect
    \/ CompareChar \/ CompareStr

GcSpec == GcInit /\ [][GcNext]_vars

(***************************************************************************)
(* The encoder on its own: encode_utf8_raw(code, &mut dst) for the codes   *)
(* around its thresholds and output slices of every length up to five,     *)
(* filled with 0x00 or with 0xFF beforehand.                               *)
(***************************************************************************)
Codes == Alphabet \cup {0, 127, 128, 2047, 2048, 65535, 65536, 1114111}
MaxDst == 5
Dsts == {[i \in 1..n |-> b] : n \in 0..MaxDst, b \in {0, 255}}

EncInit ==
    /\ s = <<>>
    /\ past = 0
    /\ at = 0
    /\ op = "init"
    /\ arg \in [code : Codes, dst : Dsts]
    /\ at0 = 0
    /\ ret = Unit
    /\ cpUsed = FALSE
    /\ f = "none"
    /\ calls = 0
    /\ other = NoOther
    /\ gc = NoCluster

\* let r = encode_utf8_raw(code, &mut dst); ret holds r and dst afterwards.
Encode ==
    /\ op = "init"
    /\ LET r == encode_utf8_raw(arg.code, arg.dst) IN
        ret' = [kind |-> "encoded", some |-> r.some, n |-> r.n, dst |-> r.dst]
    /\ op' = "encode_utf8_raw"
    /\ UNCHANGED <<s, past, at, arg, at0, cpUsed, f, calls, other, gc>>

EncSpec == EncInit /\ [][Encode]_vars

(***************************************************************************)
(* Reference notions the properties are stated with                        *)
(***************************************************************************)
\* The code-point boundaries of a valid UTF-8 str: its end and every offset
\* whose byte is not a continuation byte.
CpBoundaries(str) ==
    {i \in 0..Len(str) : i = Len(str) \/ ~is_cont(str[i + 1])}

RECURSIVE Ends(_, _)
Ends(lens, acc) ==
    IF lens = <<>> THEN {acc}
    ELSE {acc} \cup Ends(Tail(lens), acc + Head(lens))

\* The cluster boundaries of the oracle's segmentation of the whole str.
ClusterBoundaries(str) == Ends(graphemes(str), 0)

SetMax(S) == CHOOSE x \in S : \A y \in S : y <= x
SetMin(S) == CHOOSE x \in S : \A y \in S : x <= y

\* The offsets that repeated at_next_cp (at_prev_cp) visits from offset a.
RECURSIVE CpWalkRight(_, _)
CpWalkRight(str, a) ==
    LET c == at_next_cp(str, a) IN
    IF c.some THEN {c.pos} \cup CpWalkRight(str, c.pos) ELSE {}

RECURSIVE CpWalkLeft(_, _)
CpWalkLeft(str, a) ==
    LET c == at_prev_cp(str, a) IN
    IF c.some THEN {c.pos} \cup CpWalkLeft(str, c.pos) ELSE {}

\* The offsets that repeated at_next (at_prev) visits from offset a.
RECURSIVE GrWalkRight(_, _)
GrWalkRight(str, a) ==
    LET c == at_next(str, a) IN
    IF c.some THEN {c.pos} \cup GrWalkRight(str, c.pos) ELSE {}

RECURSIVE GrWalkLeft(_, _)
GrWalkLeft(str, a) ==
    LET c == at_prev(str, a) IN
    IF c.some THEN {c.pos} \cup GrWalkLeft(str, c.pos) ELSE {}

\* The texts of the clusters, and the code points, of a valid UTF-8 str.
ClusterTexts(str) ==
    LET B == ClusterBoundaries(str) IN
    {SubSeq(str, b + 1, SetMin({c \in B : c > b})) : b \in B \ {Len(str)}}

CodePointsOf(str) ==
    {first_char(SubSeq(str, b + 1, Len(str))) :
        b \in CpBoundaries(str) \ {Len(str)}}

\* The stepping method an adapter stands for, and the result of the k-th of
\* k successive calls of it from the cursor c: each call is made on the
\* cursor the call before returned.
StepOf(name, str, a) ==
    CASE name \in {"IterBefore", "IterBeforeCursor"} -> prev(str, a)
      [] name \in {"IterAfter", "IterAfterCursor"} -> next(str, a)
      [] name \in {"IterCpBefore", "IterCpBeforeCursor"} -> prev_cp(str, a)
      [] OTHER -> next_cp(str, a)

RECURSIVE KthStep(_, _, _, _)
KthStep(name, str, c, k) ==
    LET r == StepOf(name, str, c) IN
    IF k = 1 \/ r.kind = "none" THEN r ELSE KthStep(name, str, r.pos, k - 1)

\* A cursor value the program holds: cur, or the one the last step returned.
Held == {at} \cup (IF ret.kind = "cursor" THEN {ret.pos} ELSE {})

(***************************************************************************)
(* Properties                                                              *)
(***************************************************************************)

\* C1: after any safe constructor and any sequence of grapheme-level and
\* code-point-level moves, every cursor lies within the buffer, on a
\* code-point boundary.
C1_OnCodePointBoundary == \A c \in Held : c \in CpBoundaries(s)

\* C1 witness: seek_prev_cp has stepped over a four-byte code point.
C1_Witness == op = "seek_prev_cp" /\ ret.kind = "unit" /\ at0 - at = 4

\* C2: while only grapheme-level operations are used, every cursor lies on a
\* cluster boundary of the oracle's segmentation of the whole buffer.
C2_OnClusterBoundary ==
    (op # "init" /\ ~cpUsed) => \A c \in Held : c \in ClusterBoundaries(s)

\* C3: slice_before(c) ++ slice_after(c) = slice_all(c), the buffer, with
\* len(slice_before(c)) = byte_pos; new_at_start gives ("", buffer) and
\* new_at_end gives (buffer, "").
C3_SliceRoundTrip ==
    /\ \A c \in Held :
        /\ slice_before(s, c) \o slice_after(s, c) = slice_all(s, c)
        /\ slice_all(s, c) = s
        /\ Len(slice_before(s, c)) = byte_pos(s, c)
    /\ op = "new_at_start" => slice_before(s, at) = <<>> /\ slice_after(s, at) = s
    /\ op = "new_at_end" => slice_before(s, at) = s /\ slice_after(s, at) = <<>>

\* C3 witness: a cursor strictly inside a buffer, both slices non-empty.
C3_Witness ==
    /\ op = "at_next" /\ ret.kind = "cursor"
    /\ slice_before(s, ret.pos) # <<>> /\ slice_after(s, ret.pos) # <<>>

\* C4: repeated at_next (at_next_cp) from new_at_start visits strictly
\* increasing offsets and returns None exactly at byte_pos = len, repeated
\* at_prev (at_prev_cp) from new_at_end visits strictly decreasing offsets and
\* returns None exactly at byte_pos = 0, and the walk ends after finitely
\* many steps: None is returned by the (len + 1)-th call at the latest.
C4_MonotonicStepping ==
    /\ op \in RightSteps =>
            IF at0 = Len(s) THEN ret.kind = "none"
            ELSE ret.kind = "cursor" /\ at > at0
    /\ op \in LeftSteps =>
            IF at0 = 0 THEN ret.kind = "none"
            ELSE ret.kind = "cursor" /\ at < at0
    /\ calls <= Len(s) + 1
    /\ (calls = Len(s) + 1) => ret.kind = "none"

\* C4 witness: a walk by at_next over three clusters has returned None at
\* the end of the buffer.
C4_Witness ==
    /\ f = "at_next" /\ op = "at_next" /\ ret.kind = "none"
    /\ at = Len(s) /\ Len(graphemes(s)) = 3 /\ calls = 4

\* C5: seek_prev and seek_prev_cp panic exactly at byte position 0,
\* seek_next and seek_next_cp exactly at byte position len, and exactly there
\* the corresponding at_... step returns None.
C5_SeekPanicsExactlyAtEdge ==
    /\ op = "seek_prev" =>
        /\ (ret.kind = "panic") <=> (at0 = 0)
        /\ (~at_prev(s, at0).some) <=> (at0 = 0)
    /\ op = "seek_prev_cp" =>
        /\ (ret.kind = "panic") <=> (at0 = 0)
        /\ (~at_prev_cp(s, at0).some) <=> (at0 = 0)
    /\ op = "seek_next" =>
        /\ (ret.kind = "panic") <=> (at0 = Len(s))
        /\ (~at_next(s, at0).some) <=> (at0 = Len(s))
    /\ op = "seek_next_cp" =>
        /\ (ret.kind = "panic") <=> (at0 = Len(s))
        /\ (~at_next_cp(s, at0).some) <=> (at0 = Len(s))

\* C6: where the step returns Some(c2), the in-place seek leaves the cursor
\* at c2: seek_prev at at_prev(c), strictly to the left, seek_next at
\* at_next(c), seek_prev_cp at at_prev_cp(c), seek_next_cp at at_next_cp(c).
C6_SeekMovesAsStep ==
    /\ (op = "seek_prev" /\ at_prev(s, at0).some) =>
        ret.kind = "unit" /\ at = at_prev(s, at0).pos /\ at < at0
    /\ (op = "seek_next" /\ at_next(s, at0).some) =>
        ret.kind = "unit" /\ at = at_next(s, at0).pos
    /\ (op = "seek_prev_cp" /\ at_prev_cp(s, at0).some) =>
        ret.kind = "unit" /\ at = at_prev_cp(s, at0).pos
    /\ (op = "seek_next_cp" /\ at_next_cp(s, at0).some) =>
        ret.kind = "unit" /\ at = at_next_cp(s, at0).pos

\* C7: for byte_pos in 0..=len, new_at_left_of_byte_pos(s, byte_pos) is the
\* cursor at the greatest cluster boundary <= byte_pos.
C7_LeftOfIsGreatestClusterBoundary ==
    (op = "new_at_left_of_byte_pos" /\ arg <= Len(s)) =>
        /\ ret.kind = "unit"
        /\ at = SetMax({b \in ClusterBoundaries(s) : b <= arg})

\* C8: for byte_pos in 0..=len, new_at_right_of_byte_pos(s, byte_pos) is the
\* cursor at the least cluster boundary >= byte_pos.
C8_RightOfIsLeastClusterBoundary ==
    (op = "new_at_right_of_byte_pos" /\ arg <= Len(s)) =>
        /\ ret.kind = "unit"
        /\ at = SetMin({b \in ClusterBoundaries(s) : b >= arg})

\* C8 witness: byte_pos lay inside a cluster of several code points and the
\* cursor was put at the cluster's end.
C8_Witness ==
    /\ op = "new_at_right_of_byte_pos" /\ ret.kind = "unit"
    /\ arg \in CpBoundaries(s) /\ arg \notin ClusterBoundaries(s) /\ at > arg

\* C9: for byte_pos in 0..=len, new_at_cp_left_of_byte_pos(s, byte_pos) is
\* the cursor at the greatest code-point boundary <= byte_pos, which is
\* byte_pos itself when that is a boundary (byte_pos = len gives the end).
C9_CpLeftOfIsGreatestCpBoundary ==
    (op = "new_at_cp_left_of_byte_pos" /\ arg <= Len(s)) =>
        /\ ret.kind = "unit"
        /\ at = SetMax({b \in CpBoundaries(s) : b <= arg})
        /\ arg \in CpBoundaries(s) => at = arg

\* C10: for byte_pos in 0..=len, new_at_cp_right_of_byte_pos(s, byte_pos) is
\* the cursor at the least code-point boundary >= byte_pos (the end counts),
\* which is byte_pos itself when that is a boundary.
C10_CpRightOfIsLeastCpBoundary ==
    (op = "new_at_cp_right_of_byte_pos" /\ arg <= Len(s)) =>
        /\ ret.kind = "unit"
        /\ at = SetMin({b \in CpBoundaries(s) : b >= arg})
        /\ arg \in CpBoundaries(s) => at = arg

\* C10 witness: byte_pos lay inside the last code point and the cursor was
\* put at the end of the buffer.
C10_Witness ==
    /\ op = "new_at_cp_right_of_byte_pos" /\ ret.kind = "unit"
    /\ arg \notin CpBoundaries(s) /\ at = Len(s) /\ at >= arg + 2

\* C11: new_at_cp_left_of_byte_pos applied again to the byte position of the
\* cursor it built yields an equal cursor.
C11_SnapIdempotent ==
    op = "snap_again" => ret.kind = "unit" /\ at = at0

\* C12: each of the four byte-position constructors panics whenever
\* byte_pos > len and builds no cursor, whereas a step at the edge of the
\* buffer returns None, not a panic.
C12_OutOfRangePanics ==
    /\ (op \in {"new_at_left_of_byte_pos", "new_at_right_of_byte_pos",
                "new_at_cp_left_of_byte_pos", "new_at_cp_right_of_byte_pos"}
            /\ arg > Len(s)) =>
        ret.kind = "panic"
    /\ (op \in {"at_next", "at_next_cp", "next", "next_cp"} /\ at0 = Len(s)) =>
        ret.kind = "none"
    /\ (op \in {"at_prev", "at_prev_cp", "prev", "prev_cp"} /\ at0 = 0) =>
        ret.kind = "none"

\* C12 witness: new_at_right_of_byte_pos has panicked on byte_pos = len + 1
\* of a non-empty buffer.
C12_Witness ==
    /\ op = "new_at_right_of_byte_pos" /\ arg = Len(s) + 1 /\ Len(s) > 0
    /\ ret.kind = "panic"

\* C13: from a cursor on a cluster boundary, the offset at_next returns is
\* one that repeated at_next_cp from the same cursor visits, and the offset
\* at_prev returns is one that repeated at_prev_cp visits.
C13_ClusterEndOnCpWalk ==
    /\ (op = "at_next" /\ ret.kind = "cursor" /\ at0 \in ClusterBoundaries(s)) =>
        ret.pos \in CpWalkRight(s, at0)
    /\ (op = "at_prev" /\ ret.kind = "cursor" /\ at0 \in ClusterBoundaries(s)) =>
        ret.pos \in CpWalkLeft(s, at0)

\* C13 witness: at_next has stepped over a cluster of three code points.
C13_Witness ==
    /\ op = "at_next" /\ ret.kind = "cursor" /\ at0 \in ClusterBoundaries(s)
    /\ Cardinality({p \in CpWalkRight(s, at0) : p <= ret.pos}) = 3

\* C14: for two cursors over the same buffer, a.slice_between(b) and
\* b.slice_between(a) are both Some(the text of the buffer from the lesser
\* to the greater of the two byte positions).
C14_SliceBetweenOrderIndependent ==
    (op = "slice_between" /\ other.s = Cur.s) =>
        /\ ret.kind = "str"
        /\ ret.elem = SubSeq(s, min(at, other.at) + 1, max(at, other.at))
        /\ OfStr(slice_between(other, Cur)) = ret

\* C14 witness: slice_between was called on the cursor that lies after the
\* other one, and the slice is not empty.
C14_Witness ==
    /\ op = "slice_between" /\ other.s = Cur.s /\ other.at < at
    /\ ret.kind = "str" /\ ret.elem # <<>>

\* C15: slice_between and slice_until return None, and never panic, exactly
\* when the two cursors' buffers differ in start address or in length.
C15_NoneIffBuffersDiffer ==
    op \in {"slice_between", "slice_until"} =>
        /\ ret.kind \in {"none", "str"}
        /\ (ret.kind = "none") <=>
                (other.s.ptr # Cur.s.ptr \/ other.s.len # Cur.s.len)
        /\ slice_between(other, Cur).some <=> (ret.kind = "str")
        /\ slice_until(other, Cur).some <=> (ret.kind = "str")

\* C15 witness: slice_until has returned None for a cursor over a second
\* buffer with the same contents as s.
C15_Witness ==
    /\ op = "slice_until" /\ ret.kind = "none"
    /\ other.s = CopyOf(s) /\ Bytes(s, other.s) = s /\ Len(s) > 0

\* C16: for two cursors over the same buffer, a.slice_until(b) is Some(the
\* text from a's byte position to b's) when b is not before a, and Some("")
\* when b is before a.
C16_SliceUntilOrderDependent ==
    (op = "slice_until" /\ other.s = Cur.s) =>
        /\ ret.kind = "str"
        /\ ret.elem = IF other.at >= at THEN SubSeq(s, at + 1, other.at)
                      ELSE <<>>

\* C16 witness: slice_until was called with a cursor that lies before the
\* receiver, and returned the empty slice.
C16_Witness ==
    /\ op = "slice_until" /\ other.s = Cur.s /\ other.at < at
    /\ ret.kind = "str" /\ ret.elem = <<>>

\* C17: every Gc and GcBuf value obtained through the safe API is non-empty
\* and consists of exactly one extended grapheme cluster.
C17_HeldClusterIsOneCluster ==
    gc.repr # "none" => gc.str # <<>> /\ Len(graphemes(gc.str)) = 1

\* The number of code points of a valid UTF-8 str.
CodePoints(str) == Cardinality(CpBoundaries(str)) - 1

\* C18: g == ch is true exactly when the cluster g is the single code point
\* ch, whether g is held as Gc, &Gc or GcBuf; so a cluster with marks is not
\* equal to its base character, and a cluster that GcBuf::from(ch) built, or
\* Gc::from_str of the text that is ch alone, is equal to ch.
C18_EqCharLaw ==
    /\ op = "cmp_char" =>
        /\ ret.eq = (CodePoints(gc.str) = 1 /\ first_char(gc.str) = arg)
        /\ Gc_eq_char(gc.str, arg) = ret.eq
        /\ RefGc_eq_char(gc.str, arg) = ret.eq
        /\ GcBuf_eq_char(gc.str, arg) = ret.eq
        /\ has_marks(gc.str) => ~Gc_eq_char(gc.str, base_char(gc.str))
    /\ (op = "GcBuf::from(char)" /\ ret.kind = "unit") =>
        gc.repr = "GcBuf" /\ GcBuf_eq_char(gc.str, arg)
    /\ (op = "Gc::from_str" /\ CodePoints(s) = 1) =>
        ret.kind = "unit" /\ Gc_eq_char(gc.str, first_char(s))

\* C18 witness: an owned cluster with marks was compared with its own base
\* character and found unequal.
C18_Witness ==
    /\ op = "cmp_char" /\ gc.repr = "GcBuf" /\ CodePoints(gc.str) = 2
    /\ first_char(gc.str) = arg /\ ret.eq = FALSE

\* C19: g.partial_cmp(ch), for g held as Gc or &Gc, is the comparison of g's
\* base character with ch, except that a cluster with marks whose base
\* character is ch is Greater than ch.
C19_OrdCharLaw ==
    op = "cmp_char" =>
        LET expected ==
                IF first_char(gc.str) = arg /\ CodePoints(gc.str) > 1
                THEN "Greater"
                ELSE cmp(first_char(gc.str), arg)
        IN /\ Gc_partial_cmp_char(gc.str, arg) = expected
           /\ RefGc_partial_cmp_char(gc.str, arg) = expected

\* C20: g == ch and ch == g have the same truth value, the same whether g is
\* held as Gc, &Gc or GcBuf; likewise g == text and text == g.
C20_EqSymmetric ==
    /\ op = "cmp_char" =>
        /\ char_eq_Gc(arg, gc.str) = Gc_eq_char(gc.str, arg)
        /\ char_eq_RefGc(arg, gc.str) = RefGc_eq_char(gc.str, arg)
        /\ char_eq_GcBuf(arg, gc.str) = GcBuf_eq_char(gc.str, arg)
        /\ Gc_eq_char(gc.str, arg) = ret.eq
        /\ RefGc_eq_char(gc.str, arg) = ret.eq
        /\ GcBuf_eq_char(gc.str, arg) = ret.eq
    /\ op = "cmp_str" =>
        /\ str_eq_Gc(s, gc.str) = Gc_eq_str(gc.str, s)
        /\ str_eq_RefGc(s, gc.str) = RefGc_eq_str(gc.str, s)
        /\ str_eq_GcBuf(s, gc.str) = GcBuf_eq_str(gc.str, s)
        /\ Gc_eq_str(gc.str, s) = ret.eq
        /\ RefGc_eq_str(gc.str, s) = ret.eq
        /\ GcBuf_eq_str(gc.str, s) = ret.eq

\* C21: ch.partial_cmp(g) is the reverse of g.partial_cmp(ch), and
\* g.partial_cmp(ch) is the same whether g is held as Gc, &Gc or GcBuf.
C21_OrdAntisymmetric ==
    op = "cmp_char" =>
        /\ char_partial_cmp_Gc(arg, gc.str)
                = reverse(Gc_partial_cmp_char(gc.str, arg))
        /\ char_partial_cmp_RefGc(arg, gc.str)
                = reverse(RefGc_partial_cmp_char(gc.str, arg))
        /\ char_partial_cmp_GcBuf(arg, gc.str)
                = reverse(GcBuf_partial_cmp_char(gc.str, arg))
        /\ Gc_partial_cmp_char(gc.str, arg) = ret.ord
        /\ RefGc_partial_cmp_char(gc.str, arg) = ret.ord
        /\ GcBuf_partial_cmp_char(gc.str, arg) = ret.ord

\* C22: Gc::from_str(s) is Some(the cluster with text s) exactly when the
\* oracle segments s into one cluster, and None, not a panic, for the empty
\* string and for a string of two or more clusters.
C22_FromStrIffOneCluster ==
    op = "Gc::from_str" =>
        /\ ret.kind \in {"unit", "none"}
        /\ (ret.kind = "unit") <=> (Len(graphemes(s)) = 1)
        /\ ret.kind = "unit" => gc = HeldGc(s)
        /\ (s = <<>> \/ Len(graphemes(s)) >= 2) => ret.kind = "none"

\* C22 witness: from_str has returned None for a string of two clusters,
\* the first of them with a mark.
C22_Witness ==
    /\ op = "Gc::from_str" /\ ret.kind = "none"
    /\ Len(graphemes(s)) = 2 /\ graphemes(s)[1] = 3

\* C23: Gc::split_from(s) is None exactly when s is empty; otherwise it is
\* Some((g, rest)) with g the first cluster of the oracle's segmentation of
\* s and g's text followed by rest equal to s.
C23_SplitFromFirstCluster ==
    op = "Gc::split_from" =>
        /\ ret.kind \in {"split", "none"}
        /\ (ret.kind = "none") <=> (s = <<>>)
        /\ ret.kind = "split" =>
            /\ gc.repr = "Gc"
            /\ Len(gc.str) = graphemes(s)[1]
            /\ gc.str \o ret.elem = s

\* C23 witness: split_from has split a cluster of two code points from a
\* string that goes on after it.
C23_Witness ==
    /\ op = "Gc::split_from" /\ ret.kind = "split"
    /\ CodePoints(gc.str) = 2 /\ ret.elem # <<>>

\* C24: has_marks() is true exactly when the cluster is longer than the
\* UTF-8 encoding of its first code point, that is, when it has more than one
\* code point; a lone combining mark has no marks.
C24_HasMarksIffSeveralCodePoints ==
    op = "inspect" =>
        /\ ret.has_marks = (Len(gc.str) > SetMin(CpBoundaries(gc.str) \ {0}))
        /\ ret.has_marks = (CodePoints(gc.str) > 1)

\* C24 witness: has_marks() was false for a cluster that is a lone combining
\* mark.
C24_Witness ==
    /\ op = "inspect" /\ gc.str = Encoded(776) /\ ret.has_marks = FALSE

\* C25: base_char() is the first code point and mark_str() the bytes after
\* it: the encoding of base_char() followed by mark_str() is as_str(), and
\* mark_str() is empty exactly when has_marks() is false.
C25_BaseCharAndMarkStr ==
    op = "inspect" =>
        LET l == SetMin(CpBoundaries(gc.str) \ {0}) IN
        /\ Encoded(ret.base_char) = SubSeq(gc.str, 1, l)
        /\ ret.mark_str = SubSeq(gc.str, l + 1, Len(gc.str))
        /\ Encoded(ret.base_char) \o ret.mark_str = as_str(gc.str)
        /\ (ret.mark_str = <<>>) <=> ~ret.has_marks

\* C25 witness: a cluster of a three-byte base character and two marks.
C25_Witness ==
    /\ op = "inspect" /\ ret.base_char = 22823
    /\ ret.mark_str = Encoded(776) \o Encoded(776)

\* C26: g.base().as_str() is the UTF-8 encoding of g.base_char(), the first
\* code point without the marks.
C26_BaseIsBaseChar ==
    op = "inspect" => ret.base = Encoded(ret.base_char)

\* C27: for every character ch, those of four UTF-8 bytes included,
\* GcBuf::from(ch) completes and yields the owned cluster whose bytes are
\* the UTF-8 encoding of ch.
C27_FromCharEncodes ==
    op = "GcBuf::from(char)" =>
        ret.kind = "unit" /\ gc = HeldGcBuf(Encoded(arg))

\* C28: with n the UTF-8 length of code (1 below 0x80, 2 below 0x800, 3
\* below 0x10000, otherwise 4): if dst has at least n bytes,
\* encode_utf8_raw returns Some(n) and dst[0..n] is the standard encoding of
\* code, the rest of dst untouched; if dst is shorter it returns None and
\* dst is unchanged.
C28_EncodeUtf8Raw ==
    op = "encode_utf8_raw" =>
        LET n == len_utf8(arg.code)
            d == ret.dst
        IN IF Len(arg.dst) >= n
           THEN /\ ret.some /\ ret.n = n
                /\ Len(d) = Len(arg.dst)
                /\ ~is_cont(d[1]) /\ d[1] < 248
                /\ len_utf8_of_lead(d[1]) = n
                /\ \A i \in 2..n : is_cont(d[i])
                /\ first_char(SubSeq(d, 1, n)) = arg.code
                /\ \A i \in (n + 1)..Len(d) : d[i] = arg.dst[i]
           ELSE ~ret.some /\ d = arg.dst

\* C28 witness: U+0800, the least code of three bytes, was written into a
\* slice of five bytes.
C28_Witness ==
    /\ op = "encode_utf8_raw" /\ arg.code = 2048 /\ Len(arg.dst) = 5
    /\ ret.some /\ ret.n = 3 /\ SubSeq(ret.dst, 1, 3) = <<224, 160, 128>>

\* C29: next() is Some((g, c2)) exactly when after() is Some(g) and
\* at_next() is Some(c2), and None exactly when both are None; likewise prev
\* and (before, at_prev), next_cp and (cp_after, at_next_cp), prev_cp and
\* (cp_before, at_prev_cp).
C29_CombinedAgreeWithSeparate ==
    /\ op = "next" =>
        LET g == after(s, at0)  c == at_next(s, at0) IN
        IF ret.kind = "cursor"
        THEN g.some /\ g.gc = ret.elem /\ c = SomeCursor(ret.pos)
        ELSE ret.kind = "none" /\ ~g.some /\ ~c.some
    /\ op = "prev" =>
        LET g == before(s, at0)  c == at_prev(s, at0) IN
        IF ret.kind = "cursor"
        THEN g.some /\ g.gc = ret.elem /\ c = SomeCursor(ret.pos)
        ELSE ret.kind = "none" /\ ~g.some /\ ~c.some
    /\ op = "next_cp" =>
        LET cp == cp_after(s, at0)  c == at_next_cp(s, at0) IN
        IF ret.kind = "cursor"
        THEN cp.some /\ <<cp.cp>> = ret.elem /\ c = SomeCursor(ret.pos)
        ELSE ret.kind = "none" /\ ~cp.some /\ ~c.some
    /\ op = "prev_cp" =>
        LET cp == cp_before(s, at0)  c == at_prev_cp(s, at0) IN
        IF ret.kind = "cursor"
        THEN cp.some /\ <<cp.cp>> = ret.elem /\ c = SomeCursor(ret.pos)
        ELSE ret.kind = "none" /\ ~cp.some /\ ~c.some

\* C29 witness: prev_cp has returned a three-byte code point and the cursor
\* before it.
C29_Witness ==
    /\ op = "prev_cp" /\ ret.kind = "cursor"
    /\ ret.elem = <<22823>> /\ at0 - ret.pos = 3

\* C30: a predicate scan returns (t, c2) with t the buffer text between the
\* cursor and c2; every element stepped over satisfies the predicate, and c2
\* is at the buffer's edge in the scan's direction or the element beyond
\* c2 fails the predicate.
C30_PredicateScans ==
    /\ op = "after_while" =>
        LET W == {at0} \cup GrWalkRight(s, at0) IN
        /\ ret.pos \in W
        /\ ret.ptr = at0 /\ ret.elem = SubSeq(s, at0 + 1, ret.pos)
        /\ \A p \in W : p < ret.pos => GcPred(arg, after(s, p).gc)
        /\ at0 \in ClusterBoundaries(s) =>
                \A g \in ClusterTexts(ret.elem) : GcPred(arg, g)
        /\ ret.pos = Len(s) \/ ~GcPred(arg, after(s, ret.pos).gc)
    /\ op = "before_while" =>
        LET W == {at0} \cup GrWalkLeft(s, at0) IN
        /\ ret.pos \in W
        /\ ret.ptr = ret.pos /\ ret.elem = SubSeq(s, ret.pos + 1, at0)
        /\ \A p \in W : p > ret.pos => GcPred(arg, before(s, p).gc)
        /\ at0 \in ClusterBoundaries(s) =>
                \A g \in ClusterTexts(ret.elem) : GcPred(arg, g)
        /\ ret.pos = 0 \/ ~GcPred(arg, before(s, ret.pos).gc)
    /\ op = "cp_after_while" =>
        /\ ret.pos \in CpBoundaries(s) /\ ret.pos >= at0
        /\ ret.ptr = at0 /\ ret.elem = SubSeq(s, at0 + 1, ret.pos)
        /\ \A cp \in CodePointsOf(ret.elem) : CpPred(arg, cp)
        /\ ret.pos = Len(s) \/ ~CpPred(arg, cp_after(s, ret.pos).cp)
    /\ op = "cp_before_while" =>
        /\ ret.pos \in CpBoundaries(s) /\ ret.pos <= at0
        /\ ret.ptr = ret.pos /\ ret.elem = SubSeq(s, ret.pos + 1, at0)
        /\ \A cp \in CodePointsOf(ret.elem) : CpPred(arg, cp)
        /\ ret.pos = 0 \/ ~CpPred(arg, cp_before(s, ret.pos).cp)

\* C30 witness: after_while has stepped over a cluster with a mark and
\* stopped before a cluster that fails the predicate.
C30_Witness ==
    /\ op = "after_while" /\ at0 = 0 /\ ret.pos < Len(s)
    /\ \E g \in ClusterTexts(ret.elem) : has_marks(g)
    /\ ~GcPred(arg, after(s, ret.pos).gc)

\* C33: for byte_pos in 0..=len, new_at_left_of_byte_pos and
\* new_at_right_of_byte_pos return a cursor and do not panic: where
\* prev.after() and cur.at_next() are unwrapped they are Some.
C33_ByteConstructorsDoNotPanic ==
    /\ (op \in {"new_at_left_of_byte_pos", "new_at_right_of_byte_pos"}
            /\ arg <= Len(s)) =>
        ret.kind = "unit" /\ at \in 0..Len(s)
    /\ (op = "new_at_left_of_byte_pos" /\ arg <= Len(s)) =>
        LET prv == at_prev(s, new_at_cp_left_of_byte_pos(s, arg).at) IN
        prv.some => after(s, prv.pos).some
    /\ (op = "new_at_right_of_byte_pos" /\ arg <= Len(s)) =>
        LET cur == new_at_left_of_byte_pos(s, arg) IN
        byte_pos(s, cur.at) # arg => at_next(s, cur.at).some

\* C33 witness: new_at_left_of_byte_pos was given a position inside a
\* cluster and returned the cursor prev, whose after() it had unwrapped.
C33_Witness ==
    /\ op = "new_at_left_of_byte_pos" /\ arg <= Len(s) /\ ret.kind = "unit"
    /\ at < arg /\ at + Len(after(s, at).gc) > arg

\* C34: where at_next_cp(c) is Some(c2), c2.cp_before() = c.cp_after(); for
\* c on a cluster boundary, where at_next(c) is Some(c2), c2.before() =
\* c.after(); before() and cp_before() are None exactly at byte position 0,
\* after() and cp_after() exactly at byte position len.
C34_LookaroundAgreesWithStepping ==
    /\ (op = "at_next_cp" /\ ret.kind = "cursor") =>
        cp_after(s, at0).some /\ cp_before(s, ret.pos) = cp_after(s, at0)
    /\ (op = "at_next" /\ ret.kind = "cursor" /\ at0 \in ClusterBoundaries(s)) =>
        after(s, at0).some /\ before(s, ret.pos) = after(s, at0)
    /\ \A c \in Held :
        /\ (~before(s, c).some) <=> (c = 0)
        /\ (~cp_before(s, c).some) <=> (c = 0)
        /\ (~after(s, c).some) <=> (c = Len(s))
        /\ (~cp_after(s, c).some) <=> (c = Len(s))

\* C34 witness: at_next has stepped from a cluster boundary over a cluster
\* of two code points.
C34_Witness ==
    /\ op = "at_next" /\ ret.kind = "cursor" /\ at0 \in ClusterBoundaries(s)
    /\ CodePoints(before(s, ret.pos).gc) = 2

\* C38: at_next_cp then at_prev_cp, and at_prev_cp then at_next_cp, return
\* to the cursor they started from; from a cursor on a cluster boundary so do
\* at_next then at_prev, and at_prev then at_next.
C38_SteppingInvertible ==
    /\ op = "at_next_cp" =>
        IF at0 = Len(s) THEN ret.kind = "none"
        ELSE ret.kind = "cursor" /\ at_prev_cp(s, ret.pos) = SomeCursor(at0)
    /\ op = "at_prev_cp" =>
        IF at0 = 0 THEN ret.kind = "none"
        ELSE ret.kind = "cursor" /\ at_next_cp(s, ret.pos) = SomeCursor(at0)
    /\ (op = "at_next" /\ at0 \in ClusterBoundaries(s) /\ at0 # Len(s)) =>
        ret.kind = "cursor" /\ at_prev(s, ret.pos) = SomeCursor(at0)
    /\ (op = "at_prev" /\ at0 \in ClusterBoundaries(s) /\ at0 # 0) =>
        ret.kind = "cursor" /\ at_next(s, ret.pos) = SomeCursor(at0)

\* C38 witness: at_prev has stepped from a cluster boundary back over a pair
\* of regional indicators.
C38_Witness ==
    /\ op = "at_prev" /\ ret.kind = "cursor" /\ at0 \in ClusterBoundaries(s)
    /\ at0 - ret.pos = 8

\* C39: for a cluster g held as Gc, &Gc or GcBuf and a character ch, g == ch
\* exactly when g.partial_cmp(ch) is Some(Equal), and ch == g exactly when
\* ch.partial_cmp(g) is Some(Equal).
C39_EqConsistentWithOrd ==
    op = "cmp_char" =>
        /\ Gc_eq_char(gc.str, arg) <=> (Gc_partial_cmp_char(gc.str, arg) = "Equal")
        /\ RefGc_eq_char(gc.str, arg) <=> (RefGc_partial_cmp_char(gc.str, arg) = "Equal")
        /\ GcBuf_eq_char(gc.str, arg) <=> (GcBuf_partial_cmp_char(gc.str, arg) = "Equal")
        /\ char_eq_Gc(arg, gc.str) <=> (char_partial_cmp_Gc(arg, gc.str) = "Equal")
        /\ char_eq_RefGc(arg, gc.str) <=> (char_partial_cmp_RefGc(arg, gc.str) = "Equal")
        /\ char_eq_GcBuf(arg, gc.str) <=> (char_partial_cmp_GcBuf(arg, gc.str) = "Equal")

\* C37: two cursors are equal exactly when their buffers have the same start
\* address and length and their byte positions are equal; ne is the negation
\* of eq; partial_cmp is None exactly when the buffers differ by identity and
\* otherwise orders the byte positions; eq holds exactly when partial_cmp is
\* Some(Equal).
C37_CursorComparisons ==
    op = "compare" =>
        LET same == Cur.s.ptr = other.s.ptr /\ Cur.s.len = other.s.len
            p == StrCursor_byte_pos(Cur)
            q == StrCursor_byte_pos(other)
        IN /\ ret.eq <=> (same /\ p = q)
           /\ ret.ne <=> ~ret.eq
           /\ (ret.ord = "None") <=> ~same
           /\ same => ret.ord = cmp(p, q)
           /\ ret.eq <=> (ret.ord = "Equal")

\* C37 witness: the two cursors point at the same byte, over buffers that
\* start at different addresses, and compared unequal and unordered.
C37_Witness ==
    /\ op = "compare" /\ Cur.at = other.at /\ Cur.at > 0
    /\ other.s.ptr # Cur.s.ptr
    /\ ret.eq = FALSE /\ ret.ne = TRUE /\ ret.ord = "None"

\* C36: every byte seek_utf8_cp_start_left and seek_utf8_cp_start_right
\* examine, when called by the byte-position constructors with byte_pos in
\* 0..=len or by the code-point steps, has an index in [0, len); the byte at
\* index len is not read.
C36_ScansReadTheBufferOnly ==
    LET InBuffer(R) == \A i \in R : 0 <= i /\ i < Len(s) IN
    /\ (op \in {"new_at_cp_left_of_byte_pos", "new_at_left_of_byte_pos",
                 "new_at_right_of_byte_pos"} /\ arg <= Len(s)) =>
        InBuffer(seek_utf8_cp_start_left_reads(s, arg))
    /\ (op = "new_at_cp_right_of_byte_pos" /\ arg <= Len(s)) =>
        InBuffer(seek_utf8_cp_start_right_reads(s, arg))
    /\ (op \in {"at_prev_cp", "seek_prev_cp", "prev_cp"} /\ at0 > 0) =>
        InBuffer(seek_utf8_cp_start_left_reads(s, at0 - 1))
    /\ (op \in {"at_next_cp", "seek_next_cp"} /\ at0 < Len(s)) =>
        InBuffer(seek_utf8_cp_start_right_reads(s, at0 + 1))

\* C35: each call of prev or next queries the segmentation oracle at most
\* once, and each predicate scan steps and applies the predicate exactly once
\* per element it encounters, the first failing element included.
C35_SegmentsOnce ==
    /\ op \in {"prev", "next"} => calls <= 1
    /\ op \in ScanNames =>
        LET stopped == IF op \in {"before_while", "cp_before_while"}
                       THEN ret.pos # 0 ELSE ret.pos # Len(s)
            passed == IF op \in {"before_while", "after_while"}
                      THEN Len(graphemes(ret.elem))
                      ELSE CodePoints(ret.elem)
            encountered == passed + (IF stopped THEN 1 ELSE 0)
        IN ret.steps = encountered /\ ret.preds = encountered

====
